---- MODULE Spec2Model ----
(***************************************************************************)
(* A model of the lex generator: the NFA combinators (src/src/nfa.rs),     *)
(* the subset construction (src/src/dfa.rs) and the scanner that           *)
(* src/src/code.rs emits (yylex with REJECT and yymore).                   *)
(*                                                                         *)
(* Characters are their ASCII code points (97 = 'a', 98 = 'b', 10 = '\n'), *)
(* so the order of a BTreeSet<char> is the order of the integers.          *)
(***************************************************************************)
EXTENDS Integers, Sequences, FiniteSets, TLC

VARIABLES
    \* ---- generator side (nfa.rs, dfa.rs)
    gpc,          \* position of the generator pipeline
    rules,        \* Vec of rule patterns (regex ASTs), in declaration order
    tagged,       \* whether each rule's finals were given the rule's action
    nfa,          \* the (merged) NFA
    build,        \* DFA::from's locals: dfa, state_map, dfa_state_counter, queue
    word,         \* the word a check walks through the automata
    \* ---- regex parser (regex.rs)
    pattern,      \* the characters of the pattern given to Regex::new
    parsed,       \* the Result of Regex::new
    \* ---- lexer source file (file.rs, LexFile::new)
    lines,              \* content.split('\n')
    idx,                \* the loop's `i`: index of the line it is at, from 0
    current_section,
    in_action_block,
    brace_count,
    action_accumulator,
    pending_patterns,
    definitions,
    file_rules,         \* the local `rules` of LexFile::new
    code,
    outcome,            \* running, or the Result LexFile::new returned
    \* ---- code generator (code.rs, CodeGenerator::code)
    emitted,      \* the runs of CodeGenerator::code made: file and output
    applied,      \* the last call made on an NFA: its name and its operands
    simulated,    \* the last call of DFA::simulate: its input and its outcome
    \* ---- emitted scanner (code.rs, generate_token_logic)
    pc,           \* position inside yylex: idle / scan_token / process_match
    cfg,          \* index of the scanner configuration (rules and their DFA)
    acts,         \* what each rule's pasted action does
    yyin,         \* bytes of the input stream not yet read
    buffer,       \* static char buffer[YY_BUFFER_SIZE]: the bytes fread put in it
    current_pos,  \* offset of current_pos in buffer (-1 = NULL)
    buffer_end,   \* offset of buffer_end in buffer (-1 = NULL)
    yy_current_token_start,
    yy_matches,   \* yy_matches[0 .. yy_match_count-1], so yy_match_count is its length
    yy_match_index,
    yy_more_len,
    yy_rejected,
    yy_current_pattern_id,
    yytext_buffer,      \* the heap buffer's bytes (<<>> = NULL)
    yytext_buffer_size,
    yytext,             \* the bytes an action reads through yytext (<<>> = NULL)
    yyleng,
    yylineno,
    yycolumn,
    \* ---- observation of the scanner
    input,        \* the whole input stream, as it was before the first read
    last,         \* what the last step of yylex did
    calls,        \* number of yylex calls made
    freads,       \* the results of the fread calls made, in order
    streak,       \* completed matches in a row, up to now, that called yymore()
                  \* (-1 before the first completed match)
    kept,         \* the matched texts of that streak, concatenated
    tried         \* the indices of yy_matches tried since the last scan_token

pvars == <<pattern, parsed>>
fvars == <<lines, idx, current_section, in_action_block, brace_count,
           action_accumulator, pending_patterns, definitions, file_rules,
           code, outcome>>
evars == <<emitted, applied, simulated>>
gvars == <<gpc, rules, tagged, nfa, build, word, pvars, fvars, evars>>
svars == <<pc, cfg, acts, yyin, buffer, current_pos, buffer_end,
           yy_current_token_start, yy_matches, yy_match_index, yy_more_len,
           yy_rejected, yy_current_pattern_id, yytext_buffer,
           yytext_buffer_size, yytext, yyleng, yylineno, yycolumn,
           input, last, calls, freads, streak, kept, tried>>
vars == <<gvars, svars>>

-----------------------------------------------------------------------------
(* Helpers on sets and sequences                                           *)

Max(S) == CHOOSE x \in S : \A y \in S : y <= x
Min(S) == CHOOSE x \in S : \A y \in S : x <= y

\* The iteration order of a BTreeSet of integers: ascending.
RECURSIVE Ascending(_)
Ascending(S) ==
    IF S = {} THEN <<>> ELSE <<Min(S)>> \o Ascending(S \ {Min(S)})

Range(f) == {f[x] : x \in DOMAIN f}

\* F applied to the value of x ("let v = x; F(v)").
Bind(x, F(_)) == CHOOSE r \in {F(v) : v \in {x}} : TRUE

-----------------------------------------------------------------------------
(* Symbol (symbol.rs / transition.rs)                                      *)

Epsilon == [kind |-> "Epsilon", c |-> 0, set |-> {}]
Char(ch) == [kind |-> "Char", c |-> ch, set |-> {}]
CharClass(S) == [kind |-> "CharClass", c |-> 0, set |-> S]

matches(sym, ch) ==
    CASE sym.kind = "Epsilon" -> FALSE
      [] sym.kind = "Char" -> sym.c = ch
      [] sym.kind = "CharClass" -> ch \in sym.set

ASCII == 0 .. 127

-----------------------------------------------------------------------------
(* NFA (nfa.rs).  transitions is the set of (from, symbol, to) triples of  *)
(* the BTreeMap<(StateID, Symbol), BTreeSet<StateID>>; actions is the      *)
(* BTreeMap<StateID, Action> as a function on its key set.                 *)

NoActions == [s \in {} |-> 0]

MapInsert(m, k, v) == [x \in DOMAIN m \cup {k} |-> IF x = k THEN v ELSE m[x]]

NFA_default ==
    [states |-> {}, alphabet |-> {}, transitions |-> {}, start_state |-> 0,
     final_states |-> {}, actions |-> NoActions]

\* The id add_state hands out next.
NextState(n) == IF n.states = {} THEN 0 ELSE Max(n.states) + 1

add_state(n) == [n EXCEPT !.states = @ \cup {NextState(n)}]

add_action(n, state, action) ==
    [n EXCEPT !.actions = MapInsert(@, state, action)]

add_transition(n, from, symbol, to) ==
    [n EXCEPT
        !.transitions = @ \cup {[from |-> from, sym |-> symbol, to |-> to]},
        !.alphabet = CASE symbol.kind = "Epsilon" -> @
                       [] symbol.kind = "Char" -> @ \cup {symbol.c}
                       [] symbol.kind = "CharClass" -> @ \cup symbol.set]

\* `for &state in &x.states { let new = nfa.add_state(); map.insert(state, new) }`:
\* the states of x, ascending, get consecutive fresh ids.
StateMap(n, S) ==
    [s \in S |-> NextState(n) + Cardinality({t \in S : t < s})]

AddStates(n, S) == [n EXCEPT !.states = @ \cup Range(StateMap(n, S))]

\* Copy every transition of x through map m (add_transition on each).
CopyTransitions(n, x, m) ==
    [n EXCEPT
        !.transitions = @ \cup {[from |-> m[t.from], sym |-> t.sym, to |-> m[t.to]]
                                 : t \in x.transitions},
        !.alphabet = @ \cup UNION {IF t.sym.kind = "Char" THEN {t.sym.c}
                                   ELSE IF t.sym.kind = "CharClass" THEN t.sym.set
                                   ELSE {} : t \in x.transitions}]

\* Copy the actions of x's states through map m.
CopyActions(n, x, m) ==
    [n EXCEPT !.actions =
        [s \in DOMAIN @ \cup {m[k] : k \in DOMAIN x.actions} |->
            IF \E k \in DOMAIN x.actions : m[k] = s
            THEN x.actions[CHOOSE k \in DOMAIN x.actions : m[k] = s]
            ELSE @[s]]]

AddEpsilons(n, pairs) ==
    [n EXCEPT !.transitions =
        @ \cup {[from |-> p[1], sym |-> Epsilon, to |-> p[2]] : p \in pairs}]

NFA_leaf(symbol) ==
    LET n0 == add_state(NFA_default)
        start == 0
        n1 == add_state(n0)
        end == 1
    IN add_transition([n1 EXCEPT !.start_state = start, !.final_states = {end}],
                      start, symbol, end)

NFA_empty == NFA_leaf(Epsilon)
NFA_char(ch) == NFA_leaf(Char(ch))
NFA_char_class(chars) == NFA_leaf(CharClass(chars))
NFA_negated_char_class(class) ==
    NFA_char_class({ch \in ASCII : ch \notin class})
NFA_dot == NFA_char_class({ch \in 0 .. 127 : TRUE})

NFA_concat(first, second) ==
    LET n0 == NFA_default
        first_map == StateMap(n0, first.states)
        n1 == CopyActions(AddStates(n0, first.states), first, first_map)
        second_map == StateMap(n1, second.states)
        n2 == CopyActions(AddStates(n1, second.states), second, second_map)
        n3 == [n2 EXCEPT !.start_state = first_map[first.start_state]]
        n4 == CopyTransitions(CopyTransitions(n3, first, first_map),
                              second, second_map)
        n5 == AddEpsilons(n4, {<<first_map[f], second_map[second.start_state]>>
                                : f \in first.final_states})
        n6 == [n5 EXCEPT !.final_states =
                 @ \cup {second_map[f] : f \in second.final_states}]
    IN [n6 EXCEPT !.alphabet = @ \cup first.alphabet \cup second.alphabet]

NFA_union(first, second) ==
    LET n0 == add_state(NFA_default)
        start == 0
        first_map == StateMap(n0, first.states)
        n1 == CopyActions(AddStates(n0, first.states), first, first_map)
        second_map == StateMap(n1, second.states)
        n2 == CopyActions(AddStates(n1, second.states), second, second_map)
        n3 == AddEpsilons([n2 EXCEPT !.start_state = start],
                          {<<start, first_map[first.start_state]>>,
                           <<start, second_map[second.start_state]>>})
        n4 == CopyTransitions(CopyTransitions(n3, first, first_map),
                              second, second_map)
        n5 == [n4 EXCEPT !.final_states =
                 @ \cup {first_map[f] : f \in first.final_states}
                   \cup {second_map[f] : f \in second.final_states}]
    IN [n5 EXCEPT !.alphabet = @ \cup first.alphabet \cup second.alphabet]

\* An NFA::kleene whose loop goes back to the new start state.
NFA_kleene_loop_to_start(inner) ==
    LET n0 == add_state(NFA_default)
        start == 0
        map == StateMap(n0, inner.states)
        n1 == CopyTransitions(AddStates([n0 EXCEPT !.start_state = start],
                                        inner.states), inner, map)
        end == NextState(n1)
        n2 == [add_state(n1) EXCEPT !.final_states = {end}]
        n3 == AddEpsilons(n2, {<<start, map[inner.start_state]>>, <<start, end>>}
                \cup {<<map[f], start>> : f \in inner.final_states}
                \cup {<<map[f], end>> : f \in inner.final_states})
    IN [n3 EXCEPT !.alphabet = @ \cup inner.alphabet]

NFA_kleene(inner) ==
    LET n0 == add_state(NFA_default)
        start == 0
        map == StateMap(n0, inner.states)
        n1 == CopyTransitions(AddStates([n0 EXCEPT !.start_state = start],
                                        inner.states), inner, map)
        end == NextState(n1)
        n2 == [add_state(n1) EXCEPT !.final_states = {end}]
        n3 == AddEpsilons(n2, {<<start, map[inner.start_state]>>, <<start, end>>}
                \cup {<<map[f], map[inner.start_state]>> : f \in inner.final_states}
                \cup {<<map[f], end>> : f \in inner.final_states})
    IN [n3 EXCEPT !.alphabet = @ \cup inner.alphabet]

\* NFA::plus without its leading copy of inner.
NFA_plus_kleene_only(inner) == NFA_kleene(inner)

NFA_plus(inner) ==
    Bind(NFA_kleene(inner), LAMBDA kleene_part : NFA_concat(inner, kleene_part))

\* NFA::optional without nfa.final_states.insert(end).
NFA_optional_without_final(inner) ==
    LET n0 == add_state(NFA_default)
        start == 0
        map == StateMap(n0, inner.states)
        n1 == AddStates([n0 EXCEPT !.start_state = start], inner.states)
        end == NextState(n1)
        n2 == add_state(n1)
        n3 == CopyTransitions(n2, inner, map)
        n4 == AddEpsilons(n3, {<<start, end>>, <<start, map[inner.start_state]>>}
                \cup {<<map[f], end>> : f \in inner.final_states})
    IN [n4 EXCEPT !.alphabet = @ \cup inner.alphabet]

NFA_optional(inner) ==
    LET n0 == add_state(NFA_default)
        start == 0
        map == StateMap(n0, inner.states)
        n1 == AddStates([n0 EXCEPT !.start_state = start], inner.states)
        end == NextState(n1)
        n2 == [add_state(n1) EXCEPT !.final_states = {end}]
        n3 == CopyTransitions(n2, inner, map)
        n4 == AddEpsilons(n3, {<<start, end>>, <<start, map[inner.start_state]>>}
                \cup {<<map[f], end>> : f \in inner.final_states})
    IN [n4 EXCEPT !.alphabet = @ \cup inner.alphabet]

\* iter.fold(first, |acc, nfa| NFA::concat(acc, nfa)) over nfas[i ..]
RECURSIVE FoldConcat(_, _, _)
FoldConcat(acc, nfas, i) ==
    IF i > Len(nfas) THEN acc
    ELSE FoldConcat(NFA_concat(acc, nfas[i]), nfas, i + 1)

NFA_concat_multiples(nfas) ==
    CASE Len(nfas) = 0 -> NFA_empty
      [] Len(nfas) = 1 -> nfas[1]
      [] OTHER -> FoldConcat(nfas[1], nfas, 2)

RECURSIVE FoldUnion(_, _, _)
FoldUnion(acc, nfas, i) ==
    IF i > Len(nfas) THEN acc
    ELSE FoldUnion(NFA_union(acc, nfas[i]), nfas, i + 1)

NFA_union_multiples(nfas) ==
    CASE Len(nfas) = 0 -> NFA_empty
      [] Len(nfas) = 1 -> nfas[1]
      [] OTHER -> FoldUnion(nfas[1], nfas, 2)

\* NFA::bounded with one optional part too many (for _ in min..=max).
NFA_bounded_inclusive(inner, min, max) ==
    IF min = 0 /\ max = <<>> THEN NFA_kleene(inner)
    ELSE Bind(Bind([i \in 1 .. min |-> inner], NFA_concat_multiples),
              LAMBDA n0 :
        IF max # <<>>
        THEN Bind([i \in 1 .. (IF max[1] >= min THEN max[1] - min + 1 ELSE 0)
                     |-> NFA_optional(inner)],
                  LAMBDA optional_parts :
                Bind(<<n0, NFA_concat_multiples(optional_parts)>>,
                     NFA_concat_multiples))
        ELSE Bind(NFA_kleene(inner), LAMBDA kleene : NFA_concat(n0, kleene)))

\* max is <<>> for None and <<n>> for Some(n).
NFA_bounded(inner, min, max) ==
    IF min = 0 /\ max = <<>> THEN NFA_kleene(inner)
    ELSE Bind(Bind([i \in 1 .. min |-> inner], NFA_concat_multiples),
              LAMBDA n0 :
        IF max # <<>>
        THEN Bind([i \in 1 .. (IF max[1] > min THEN max[1] - min ELSE 0)
                     |-> NFA_optional(inner)],
                  LAMBDA optional_parts :
                IF optional_parts # <<>>
                THEN Bind(<<n0, NFA_concat_multiples(optional_parts)>>,
                          NFA_concat_multiples)
                ELSE n0)
        ELSE Bind(NFA_kleene(inner), LAMBDA kleene : NFA_concat(n0, kleene)))

\* An epsilon_closure that pushes nothing: the epsilon successors of the
\* input states are added and not followed.
RECURSIVE ClosureLoop_without_push(_, _, _)
ClosureLoop_without_push(n, closure, stack) ==
    IF stack = <<>> THEN closure
    ELSE LET state == stack[Len(stack)]
             next_states == {t.to : t \in {x \in n.transitions :
                                 x.from = state /\ x.sym = Epsilon}}
         IN ClosureLoop_without_push(n, closure \cup next_states,
                                     SubSeq(stack, 1, Len(stack) - 1))

\* The worklist of epsilon_closure: pop the last state of the stack, add its
\* epsilon successors that are new to closure and push them.
RECURSIVE ClosureLoop(_, _, _)
ClosureLoop(n, closure, stack) ==
    IF stack = <<>> THEN closure
    ELSE LET state == stack[Len(stack)]
             next_states == {t.to : t \in {x \in n.transitions :
                                 x.from = state /\ x.sym = Epsilon}}
             fresh == next_states \ closure
         IN ClosureLoop(n, closure \cup fresh,
                        SubSeq(stack, 1, Len(stack) - 1) \o Ascending(fresh))

epsilon_closure(n, states) == ClosureLoop(n, states, Ascending(states))

-----------------------------------------------------------------------------
(* Regex AST (regex.rs, enum Regex) and impl From<Regex> for NFA           *)

RChar(ch) == [op |-> "Char", c |-> ch]
RClass(S) == [op |-> "CharClass", set |-> S]
RNegClass(S) == [op |-> "NegatedCharClass", set |-> S]
RDot == [op |-> "Dot"]
REmpty == [op |-> "Empty"]
RConcat(l, r) == [op |-> "Concat", left |-> l, right |-> r]
RUnion(l, r) == [op |-> "Union", left |-> l, right |-> r]
RKleene(x) == [op |-> "Kleene", inner |-> x]
RPlus(x) == [op |-> "Plus", inner |-> x]
ROption(x) == [op |-> "Option", inner |-> x]
RBounded(x, mn, mx) == [op |-> "Bounded", inner |-> x, min |-> mn, max |-> mx]

RECURSIVE NFA_from(_)
NFA_from(regex) ==
    CASE regex.op = "Empty" -> NFA_empty
      [] regex.op = "Char" -> NFA_char(regex.c)
      [] regex.op = "CharClass" -> NFA_char_class(regex.set)
      [] regex.op = "NegatedCharClass" -> NFA_negated_char_class(regex.set)
      [] regex.op = "Dot" -> NFA_dot
      [] regex.op = "Concat" ->
            NFA_concat(NFA_from(regex.left), NFA_from(regex.right))
      [] regex.op = "Union" ->
            NFA_union(NFA_from(regex.left), NFA_from(regex.right))
      [] regex.op = "Kleene" -> NFA_kleene(NFA_from(regex.inner))
      [] regex.op = "Option" -> NFA_optional(NFA_from(regex.inner))
      [] regex.op = "Plus" -> NFA_plus(NFA_from(regex.inner))
      [] regex.op = "Bounded" ->
            NFA_bounded(NFA_from(regex.inner), regex.min, regex.max)

-----------------------------------------------------------------------------
(* DFA (dfa.rs).  transitions is the BTreeMap<(StateID, TransitionSymbol), *)
(* StateID> as a function on its key set of <<state, char>> pairs: the     *)
(* only symbol DFA::from ever inserts is TransitionSymbol::Char.           *)

NoTransitions == [k \in {} |-> 0]

DFA_default ==
    [states |-> {}, alphabet |-> {}, transitions |-> NoTransitions,
     start_state |-> 0, final_states |-> {}, actions |-> NoActions]

\* dfa.rs 60-73: the locals of DFA::from before its while loop.
DFA_begin(n) ==
    LET start_set == epsilon_closure(n, {n.start_state})
    IN [dfa |-> [DFA_default EXCEPT !.alphabet = n.alphabet,
                                    !.states = {0},
                                    !.start_state = 0],
        state_map |-> [S \in {start_set} |-> 0],
        dfa_state_counter |-> 1,
        queue |-> <<start_set>>]

\* A DFA::from that keeps the last final it meets instead of the smallest.
highest_priority_state_last(n, next_nfa_states) ==
    LET finals == next_nfa_states \cap n.final_states
    IN IF finals = {} THEN <<>> ELSE <<Max(finals)>>

\* dfa.rs 109-118: the NFA final of the subset with the smallest id, as
\* <<id>>, or <<>> when the subset holds no final.
highest_priority_state(n, next_nfa_states) ==
    LET finals == next_nfa_states \cap n.final_states
    IN IF finals = {} THEN <<>> ELSE <<Min(finals)>>

\* dfa.rs 79-95: the targets of current_nfa_states on Char(symbol) and on
\* every CharClass containing symbol.
move(n, current_nfa_states, symbol) ==
    {t.to : t \in {x \in n.transitions :
                     /\ x.from \in current_nfa_states
                     /\ \/ x.sym = Char(symbol)
                        \/ x.sym.kind = "CharClass" /\ symbol \in x.sym.set}}

\* A DFA::from that makes a state final whenever its subset holds an NFA
\* final, with or without an action.
DFA_symbol_final_without_action(n, b, current_nfa_states, symbol) ==
    LET current_dfa_state == b.state_map[current_nfa_states]
        next_nfa_states == epsilon_closure(n, move(n, current_nfa_states, symbol))
    IN IF next_nfa_states = {} THEN b
       ELSE IF next_nfa_states \in DOMAIN b.state_map
       THEN [b EXCEPT !.dfa.transitions =
                MapInsert(@, <<current_dfa_state, Char(symbol)>>,
                          b.state_map[next_nfa_states])]
       ELSE LET new_id == b.dfa_state_counter
                hp == highest_priority_state(n, next_nfa_states)
                has_action == hp # <<>> /\ hp[1] \in DOMAIN n.actions
            IN [b EXCEPT
                  !.dfa_state_counter = @ + 1,
                  !.state_map = MapInsert(@, next_nfa_states, new_id),
                  !.dfa.states = @ \cup {new_id},
                  !.dfa.final_states = IF hp # <<>> THEN @ \cup {new_id} ELSE @,
                  !.dfa.actions = IF has_action
                                  THEN MapInsert(@, new_id, n.actions[hp[1]])
                                  ELSE @,
                  !.queue = Append(@, next_nfa_states),
                  !.dfa.transitions =
                      MapInsert(@, <<current_dfa_state, Char(symbol)>>, new_id)]

\* A DFA::from that never looks a subset up in state_map: every target is
\* a new state.
DFA_symbol_without_lookup(n, b, current_nfa_states, symbol) ==
    LET current_dfa_state == b.state_map[current_nfa_states]
        next_nfa_states == epsilon_closure(n, move(n, current_nfa_states, symbol))
    IN IF next_nfa_states = {} THEN b
       ELSE LET new_id == b.dfa_state_counter
                hp == highest_priority_state(n, next_nfa_states)
                has_action == hp # <<>> /\ hp[1] \in DOMAIN n.actions
            IN [b EXCEPT
                  !.dfa_state_counter = @ + 1,
                  !.state_map = MapInsert(@, next_nfa_states, new_id),
                  !.dfa.states = @ \cup {new_id},
                  !.dfa.final_states = IF has_action THEN @ \cup {new_id} ELSE @,
                  !.dfa.actions = IF has_action
                                  THEN MapInsert(@, new_id, n.actions[hp[1]])
                                  ELSE @,
                  !.queue = Append(@, next_nfa_states),
                  !.dfa.transitions =
                      MapInsert(@, <<current_dfa_state, Char(symbol)>>, new_id)]

\* dfa.rs 78-134: one pass of `for &symbol in &dfa.alphabet`.
DFA_symbol(n, b, current_nfa_states, symbol) ==
    LET current_dfa_state == b.state_map[current_nfa_states]
        next_nfa_states == epsilon_closure(n, move(n, current_nfa_states, symbol))
    IN IF next_nfa_states = {} THEN b
       ELSE IF next_nfa_states \in DOMAIN b.state_map
       THEN [b EXCEPT !.dfa.transitions =
                MapInsert(@, <<current_dfa_state, Char(symbol)>>,
                          b.state_map[next_nfa_states])]
       ELSE LET new_id == b.dfa_state_counter
                hp == highest_priority_state(n, next_nfa_states)
                has_action == hp # <<>> /\ hp[1] \in DOMAIN n.actions
            IN [b EXCEPT
                  !.dfa_state_counter = @ + 1,
                  !.state_map = MapInsert(@, next_nfa_states, new_id),
                  !.dfa.states = @ \cup {new_id},
                  !.dfa.final_states = IF has_action THEN @ \cup {new_id} ELSE @,
                  !.dfa.actions = IF has_action
                                  THEN MapInsert(@, new_id, n.actions[hp[1]])
                                  ELSE @,
                  !.queue = Append(@, next_nfa_states),
                  !.dfa.transitions =
                      MapInsert(@, <<current_dfa_state, Char(symbol)>>, new_id)]

RECURSIVE DFA_symbols(_, _, _, _, _)
DFA_symbols(n, b, current_nfa_states, symbols, i) ==
    IF i > Len(symbols) THEN b
    ELSE DFA_symbols(n, DFA_symbol(n, b, current_nfa_states, symbols[i]),
                     current_nfa_states, symbols, i + 1)

\* dfa.rs 75-135: one iteration of `while let Some(..) = queue.pop_front()`.
DFA_pop(n, b) ==
    DFA_symbols(n, [b EXCEPT !.queue = Tail(@)], Head(b.queue),
                Ascending(b.dfa.alphabet), 1)

RECURSIVE DFA_loop(_, _)
DFA_loop(n, b) == IF b.queue = <<>> THEN b ELSE DFA_loop(n, DFA_pop(n, b))

\* impl From<NFA> for DFA
DFA_from(n) == Bind(DFA_begin(n), LAMBDA b : DFA_loop(n, b)).dfa

\* The lookup self.transitions.get(&(state, Char(c))): the target, or -1
\* (None in dfa.rs, the emitted `return -1` in code.rs).
transition(d, state, ch) ==
    IF <<state, Char(ch)>> \in DOMAIN d.transitions
    THEN d.transitions[<<state, Char(ch)>>]
    ELSE -1

-----------------------------------------------------------------------------
(* The generator pipeline: rule patterns -> rule NFAs -> union -> DFA.     *)

A == 97
B == 98
NL == 10

\* Longest word walked through the automata.
MaxWordLen == 3
\* Most rules in one rule list.
MaxRules == 2

Words == UNION {[1 .. k -> {A, B}] : k \in 0 .. MaxWordLen}

\* The patterns rule lists are drawn from:
\* a, b, [ab], ab, a|b, a*, a+, a?, (ab)*, [ab]+, (a*)*, a{1,2}
Patterns ==
    <<RChar(A), RChar(B), RClass({A, B}), RConcat(RChar(A), RChar(B)),
      RUnion(RChar(A), RChar(B)), RKleene(RChar(A)), RPlus(RChar(A)),
      ROption(RChar(A)), RKleene(RConcat(RChar(A), RChar(B))),
      RPlus(RClass({A, B})), RKleene(RKleene(RChar(A))),
      RBounded(RChar(A), 1, <<2>>)>>

RuleLists == UNION {[1 .. k -> Range(Patterns)] : k \in 1 .. MaxRules}

\* The NFA of rule number i: the pattern's NFA with the rule's action put on
\* every final state by add_action.  The action of rule i is written i.
RuleNFA(regex, i) ==
    Bind(NFA_from(regex),
         LAMBDA n : [n EXCEPT !.actions = [s \in n.final_states |-> i]])

\* The NFA handed to DFA::from: the union of the rules' NFAs in declaration
\* order.
MergedNFA(rs, tag) ==
    Bind([i \in 1 .. Len(rs) |->
             IF tag THEN RuleNFA(rs[i], i) ELSE NFA_from(rs[i])],
         NFA_union_multiples)

NoBuild == [dfa |-> DFA_default, state_map |-> [S \in {} |-> 0],
            dfa_state_counter |-> 0, queue |-> <<>>]

\* applied before any call on an NFA.
NoCall == [op |-> "none", first |-> NFA_default, second |-> NFA_default,
           n |-> 0]

\* No call of DFA::simulate yet.
NoRun == [kind |-> "none", input |-> <<>>, tokens |-> <<>>]

\* parsed before Regex::new has run.
NoParse == [ok |-> FALSE, val |-> [op |-> "Empty"], pos |-> 0, err |-> "none"]

\* The parser side at rest.
ParserIdle == pattern = <<>> /\ parsed = NoParse

\* LexFile::new has not been called.
NoOutcome == [kind |-> "off", msg |-> "", line |-> 0]

FileIdle ==
    /\ lines = <<>> /\ idx = 0 /\ current_section = "Definitions"
    /\ in_action_block = FALSE /\ brace_count = 0
    /\ action_accumulator = <<>> /\ pending_patterns = <<>>
    /\ definitions = <<>> /\ file_rules = <<>> /\ code = <<>>
    /\ outcome = NoOutcome

\* What a step of yylex did, for the claims to read.
NoEvent ==
    [kind |-> "none", start |-> 0, len |-> 0, index |-> 0, state |-> 0,
     rule |-> 0, act |-> "none", text |-> <<>>, yytext |-> <<>>, yyleng |-> 0,
     more_len |-> 0, byte |-> 0, line |-> 0, col |-> 0, n |-> 0,
     streak |-> 0, kept |-> <<>>, dropped |-> 0, tried |-> {}]

\* The scanner side at rest, for the specifications of the generator.
ScannerIdle ==
    /\ pc = "off" /\ cfg = 0 /\ acts = <<>> /\ yyin = <<>> /\ buffer = <<>>
    /\ current_pos = -1 /\ buffer_end = -1 /\ yy_current_token_start = -1
    /\ yy_matches = <<>> /\ yy_match_index = 0 /\ yy_more_len = 0
    /\ yy_rejected = 0 /\ yy_current_pattern_id = -1 /\ yytext_buffer = <<>>
    /\ yytext_buffer_size = 0 /\ yytext = <<>> /\ yyleng = 0
    /\ yylineno = 0 /\ yycolumn = 0 /\ input = <<>> /\ last = NoEvent
    /\ calls = 0 /\ freads = <<>> /\ streak = -1 /\ kept = <<>>
    /\ tried = {}

GenInit ==
    /\ gpc = "rules"
    /\ rules \in RuleLists
    /\ tagged \in BOOLEAN
    /\ nfa = NFA_default
    /\ build = NoBuild
    /\ word = <<>>
    /\ ScannerIdle
    /\ ParserIdle
    /\ FileIdle
    /\ emitted = <<>>
    /\ applied = NoCall
    /\ simulated = NoRun

\* NFA::union_multiples over the rules' NFAs.
Merge ==
    /\ gpc = "rules"
    /\ nfa' = MergedNFA(rules, tagged)
    /\ gpc' = "nfa"
    /\ UNCHANGED <<rules, tagged, build, word, svars, pvars, fvars, evars>>

\* DFA::from up to its while loop.
ConvertBegin ==
    /\ gpc = "nfa"
    /\ build' = DFA_begin(nfa)
    /\ gpc' = "dfa_loop"
    /\ UNCHANGED <<rules, tagged, nfa, word, svars, pvars, fvars, evars>>

\* One iteration of DFA::from's while loop; the loop ends, and DFA::from
\* returns build.dfa, when the queue is empty.
ConvertPop ==
    /\ gpc = "dfa_loop"
    /\ build' = DFA_pop(nfa, build)
    /\ gpc' = IF build'.queue = <<>> THEN "dfa" ELSE "dfa_loop"
    /\ UNCHANGED <<rules, tagged, nfa, word, svars, pvars, fvars, evars>>

\* A word is picked to be walked through the finished automata.
Walk ==
    /\ gpc = "dfa"
    /\ \E w \in Words : word' = w
    /\ gpc' = "walked"
    /\ UNCHANGED <<rules, tagged, nfa, build, svars, pvars, fvars, evars>>

GenNext == Merge \/ ConvertBegin \/ ConvertPop \/ Walk

SpecGen == GenInit /\ [][GenNext]_vars

\* The DFA state reached from the start state on w, or -1 (dfa.rs 165-180).
RECURSIVE DFA_walk(_, _, _)
DFA_walk(d, state, w) ==
    IF w = <<>> \/ state = -1 THEN state
    ELSE DFA_walk(d, transition(d, state, Head(w)), Tail(w))

DFA_accepts(d, w) == DFA_walk(d, d.start_state, w) \in d.final_states

\* The states some run of the NFA can be in after reading w: reachability
\* over epsilon edges, then one edge whose symbol matches the character.
RECURSIVE EpsReach(_, _)
EpsReach(n, S) ==
    LET T == S \cup {t.to : t \in {x \in n.transitions :
                         x.from \in S /\ x.sym.kind = "Epsilon"}}
    IN IF T = S THEN S ELSE EpsReach(n, T)

RECURSIVE NFA_run(_, _, _)
NFA_run(n, S, w) ==
    IF w = <<>> THEN EpsReach(n, S)
    ELSE NFA_run(n, {t.to : t \in {x \in n.transitions :
                        x.from \in EpsReach(n, S) /\ matches(x.sym, Head(w))}},
                 Tail(w))

NFA_accepts(n, w) == NFA_run(n, {n.start_state}, w) \cap n.final_states # {}

\* The NFA subset a DFA state stands for (the key of state_map).
Subset(b, d) == CHOOSE S \in DOMAIN b.state_map : b.state_map[S] = d

-----------------------------------------------------------------------------
(* Claims about the generator                                              *)

\* The NFA finals of the subset of DFA state d.
FinalsOf(d) == Subset(build, d) \cap nfa.final_states

\* C2: in the DFA built from the union, in declaration order, of rule NFAs
\* whose finals carry their rule's action, the action of every final DFA
\* state is the action of the earliest-declared rule with a final in the
\* state's subset, and the finals of an earlier rule have smaller ids than
\* the finals of a later rule.
C2_EarliestRuleWins ==
    (tagged /\ gpc \in {"dfa_loop", "dfa", "walked"}) =>
        /\ \A f, g \in nfa.final_states :
              nfa.actions[f] < nfa.actions[g] => f < g
        /\ \A d \in build.dfa.final_states :
              build.dfa.actions[d] = Min({nfa.actions[f] : f \in FinalsOf(d)})

\* C2's case: a finished DFA with a final state whose subset holds finals of
\* two different rules.
C2_Witness ==
    /\ tagged /\ gpc = "dfa"
    /\ \E d \in build.dfa.final_states :
          /\ Cardinality({nfa.actions[f] : f \in FinalsOf(d)}) >= 2
          /\ build.dfa.actions[d] = 1

\* C3: walking the DFA from its start state on a word ends in a state of
\* dfa.final_states if and only if the NFA has a run on the word from its
\* start state to one of its final states.
C3_DFAAcceptsWhatNFAAccepts ==
    gpc = "walked" => (DFA_accepts(build.dfa, word) <=> NFA_accepts(nfa, word))

-----------------------------------------------------------------------------
(* The emitted scanner (code.rs, generate_transition_table and             *)
(* generate_token_logic), run on the DFA of a rule list.                   *)

\* #define MAX_MATCHES 100, scaled down: the scanner depends on it only
\* through the number of accepting positions one walk can record.
MAX_MATCHES == 3
\* #define YY_BUFFER_SIZE 16384, scaled down: the scanner depends on it only
\* through the number of bytes one fread can deliver.  It stays above
\* MAX_MATCHES, as in the emitted code.
YY_BUFFER_SIZE == 5
\* Longest input of the exhaustively enumerated inputs.
MaxInput == 4
\* Most calls of yylex the caller makes.
MaxCalls == 3

\* The initial values of the globals of libl.h.
yylineno_init == 1
yycolumn_init == 0

Bytes == {A, B, NL}

\* The rule lists the scanner is generated for:
\*   1: ab, [ab]+      2: a, b      3: a+      4: a+, \n
ScannerRules ==
    << <<RConcat(RChar(A), RChar(B)), RPlus(RClass({A, B}))>>,
       <<RChar(A), RChar(B)>>,
       <<RPlus(RChar(A))>>,
       <<RPlus(RChar(A)), RChar(NL)>> >>

\* The DFA the code generator is given for each rule list.
ScannerDFA ==
    [i \in 1 .. Len(ScannerRules) |->
        Bind(MergedNFA(ScannerRules[i], TRUE), DFA_from)]

\* What a pasted action does: nothing the scanner sees, yymore(), or REJECT.
ActionKinds == {"none", "yymore", "REJECT"}

ShortInputs == UNION {[1 .. k -> Bytes] : k \in 0 .. MaxInput}
\* Inputs one byte longer than the buffer.
LongInputs ==
    {[i \in 1 .. YY_BUFFER_SIZE + 1 |-> A],
     [i \in 1 .. YY_BUFFER_SIZE + 1 |-> IF i % 2 = 1 THEN A ELSE B],
     [i \in 1 .. YY_BUFFER_SIZE + 1 |-> IF i = YY_BUFFER_SIZE THEN NL ELSE A]}
Inputs == ShortInputs \cup LongInputs

GenIdle ==
    /\ gpc = "off" /\ rules = <<>> /\ tagged = FALSE /\ nfa = NFA_default
    /\ build = NoBuild /\ word = <<>>
    /\ ParserIdle
    /\ emitted = <<>>
    /\ applied = NoCall
    /\ simulated = NoRun

ScanInit ==
    /\ GenIdle
    /\ FileIdle
    /\ pc = "idle"
    /\ cfg \in 1 .. Len(ScannerRules)
    /\ acts \in [1 .. Len(ScannerRules[cfg]) -> ActionKinds]
    /\ input \in Inputs
    /\ yyin = input
    /\ buffer = <<>>
    /\ current_pos = -1 /\ buffer_end = -1 /\ yy_current_token_start = -1
    /\ yy_matches = <<>> /\ yy_match_index = 0 /\ yy_more_len = 0
    /\ yy_rejected = 0 /\ yy_current_pattern_id = -1
    /\ yytext_buffer = <<>> /\ yytext_buffer_size = 0 /\ yytext = <<>>
    /\ yyleng = 0
    /\ yylineno = yylineno_init /\ yycolumn = yycolumn_init
    /\ last = NoEvent /\ calls = 0 /\ freads = <<>>
    /\ streak = -1 /\ kept = <<>> /\ tried = {}

dfa == ScannerDFA[cfg]

\* static int is_accepting(StateID state)
is_accepting(d, state) == state \in d.final_states

\* static struct PatternInfo get_pattern_info(StateID state): the finals are
\* numbered in ascending order of state id.
get_pattern_info(d, state) ==
    IF state \in d.final_states
    THEN LET pattern_id == Cardinality({f \in d.final_states : f < state})
         IN [pattern_id |-> pattern_id,
             priority |-> Cardinality(d.final_states) - pattern_id]
    ELSE [pattern_id |-> -1, priority |-> -1]

\* static void add_match(StateID state, char *pos): w.matches is yy_matches,
\* w.dropped counts the "Too many matches" messages.
add_match(d, w, state, pos, token_start) ==
    IF Len(w.matches) < MAX_MATCHES
    THEN LET info == get_pattern_info(d, state)
         IN IF info.pattern_id # -1
            THEN [w EXCEPT !.matches = Append(@,
                     [state |-> state, pattern_id |-> info.pattern_id,
                      priority |-> info.priority, length |-> pos - token_start,
                      text_position |-> pos])]
            ELSE w
    ELSE [w EXCEPT !.dropped = @ + 1]

\* static int compare_matches(const void *a, const void *b)
compare_matches(m1, m2) ==
    IF m1.length # m2.length THEN m2.length - m1.length
    ELSE m2.priority - m1.priority

\* qsort(yy_matches, yy_match_count, sizeof(Match), compare_matches), as an
\* insertion sort.  No two matches of one walk have the same length, so
\* compare_matches never returns 0 and the sorted order is unique.
RECURSIVE SortInsert(_, _)
SortInsert(sorted, m) ==
    IF sorted = <<>> THEN <<m>>
    ELSE IF compare_matches(m, Head(sorted)) <= 0 THEN <<m>> \o sorted
    ELSE <<Head(sorted)>> \o SortInsert(Tail(sorted), m)

RECURSIVE qsort(_, _, _)
qsort(ms, i, sorted) ==
    IF i > Len(ms) THEN sorted ELSE qsort(ms, i + 1, SortInsert(sorted, ms[i]))

\* The byte at offset p of buffer.
ByteAt(p) == buffer[p + 1]

\* code.rs 264-279: the DFA walk from scan_pos.
RECURSIVE dfa_walk(_, _, _, _, _)
dfa_walk(d, current_state, scan_pos, token_start, w) ==
    IF scan_pos >= buffer_end THEN w
    ELSE LET next_state == transition(d, current_state, ByteAt(scan_pos))
         IN IF next_state = -1 THEN w
            ELSE Bind(IF is_accepting(d, next_state)
                      THEN add_match(d, w, next_state, scan_pos + 1, token_start)
                      ELSE w,
                      LAMBDA w1 : dfa_walk(d, next_state, scan_pos + 1,
                                           token_start, w1))

\* The caller calls yylex.  code.rs 236-251: the buffer is (re)filled by one
\* fread when current_pos is NULL or at buffer_end.
YylexEntry ==
    /\ pc = "idle"
    /\ calls < MaxCalls
    /\ calls' = calls + 1
    /\ IF current_pos = -1 \/ current_pos >= buffer_end
       THEN LET n == IF Len(yyin) < YY_BUFFER_SIZE THEN Len(yyin)
                     ELSE YY_BUFFER_SIZE
            IN /\ buffer' = SubSeq(yyin, 1, n)
               /\ yyin' = SubSeq(yyin, n + 1, Len(yyin))
               /\ current_pos' = 0
               /\ buffer_end' = n
               /\ freads' = Append(freads, n)
               /\ pc' = IF n = 0 THEN "idle" ELSE "scan_token"
               /\ last' = [NoEvent EXCEPT
                             !.kind = IF n = 0 THEN "eof" ELSE "call",
                             !.n = n]
       ELSE /\ pc' = "scan_token"
            /\ last' = [NoEvent EXCEPT !.kind = "call"]
            /\ UNCHANGED <<buffer, yyin, current_pos, buffer_end, freads>>
    /\ UNCHANGED <<gvars, cfg, acts, yy_current_token_start, yy_matches,
                   yy_match_index, yy_more_len, yy_rejected,
                   yy_current_pattern_id, yytext_buffer, yytext_buffer_size,
                   yytext, yyleng, yylineno, yycolumn, input, streak, kept,
                   tried>>

\* A scanner that does not move past the unexpected byte.
skip_unexpected_stay(pos) == pos

\* code.rs 384: current_pos++ past the unexpected byte.
skip_unexpected(pos) == pos + 1

\* code.rs 254-284 and 363-397: from the label scan_token to the next jump:
\* the walk and the sort, then on to process_match, or the skip of one
\* unexpected byte, or the return at the end of the buffer.
ScanToken ==
    /\ pc = "scan_token"
    /\ LET w == dfa_walk(dfa, 0, current_pos, current_pos,
                         [matches |-> <<>>, dropped |-> 0])
           ev == [NoEvent EXCEPT !.start = current_pos, !.dropped = w.dropped]
       IN /\ yy_match_index' = 0
          /\ yy_current_token_start' = current_pos
          /\ tried' = {}
          /\ IF Len(w.matches) > 0
             THEN /\ yy_matches' = qsort(w.matches, 1, <<>>)
                  /\ pc' = "process_match"
                  /\ last' = [ev EXCEPT !.kind = "scan"]
                  /\ UNCHANGED <<current_pos, yylineno, yycolumn,
                                 yytext_buffer, yytext>>
             ELSE IF current_pos < buffer_end
             THEN /\ yy_matches' = <<>>
                  /\ last' = [ev EXCEPT !.kind = "error",
                                        !.byte = ByteAt(current_pos),
                                        !.line = yylineno, !.col = yycolumn]
                  /\ IF ByteAt(current_pos) = NL
                     THEN yylineno' = yylineno + 1 /\ yycolumn' = 0
                     ELSE yycolumn' = yycolumn + 1 /\ UNCHANGED yylineno
                  /\ current_pos' = skip_unexpected(current_pos)
                  /\ pc' = "scan_token"
                  /\ UNCHANGED <<yytext_buffer, yytext>>
             ELSE /\ yy_matches' = <<>>
                  /\ yytext_buffer' = <<>>
                  /\ yytext' = IF yytext_buffer # <<>> THEN <<>> ELSE yytext
                  /\ pc' = "idle"
                  /\ last' = [ev EXCEPT !.kind = "end"]
                  /\ UNCHANGED <<current_pos, yylineno, yycolumn>>
    /\ UNCHANGED <<gvars, cfg, acts, yyin, buffer, buffer_end, yy_more_len,
                   yy_rejected, yy_current_pattern_id, yytext_buffer_size,
                   yyleng, input, calls, freads, streak, kept>>

\* The bytes a read of a cell that was never written can give.
Garbage == Bytes \cup {0}

\* code.rs 309-327: yytext_buffer after the (re)allocation and the memcpy of
\* the match and its NUL; g stands for the cells malloc/realloc left
\* uninitialized.
yytext_copy(old, more_len, len, pos, g) ==
    LET total_len == more_len + len
        grown == IF old = <<>> \/ total_len + 1 > yytext_buffer_size
                 THEN [i \in 1 .. total_len + 1 |->
                          IF i <= Len(old) THEN old[i] ELSE g]
                 ELSE old
    IN [i \in 1 .. Len(grown) |->
          IF more_len < i /\ i <= total_len THEN ByteAt(pos + (i - more_len) - 1)
          ELSE IF i = total_len + 1 THEN 0
          ELSE grown[i]]

\* The rule whose action execute_action(state) runs (the action of rule i
\* is written i).
RuleOf(d, state) == d.actions[state]

\* yymore(): yy_more_len = yyleng
yymore(more_len, leng) == leng

\* A scanner that stays on the byte when every match was REJECTed.
skip_rejected_stay(pos) == pos

\* code.rs 292: current_pos++ when every match was REJECTed.
skip_rejected(pos) == pos + 1

\* A REJECT that skips over the next alternative.
next_alternative_skip(index) == index + 2

\* code.rs 339: yy_match_index++ after a REJECT.
next_alternative(index) == index + 1

\* code.rs 287-358: from the label process_match to the next jump: the
\* current match is set up and its action run; REJECT moves to the next
\* match, otherwise the match is consumed.
ProcessMatch ==
    /\ pc = "process_match"
    /\ IF yy_match_index >= Len(yy_matches)
       THEN /\ IF current_pos < buffer_end
               THEN /\ last' = [NoEvent EXCEPT !.kind = "all_rejected",
                                               !.start = current_pos,
                                               !.byte = ByteAt(current_pos)]
                    /\ current_pos' = skip_rejected(current_pos)
                    /\ pc' = "scan_token"
               ELSE /\ last' = [NoEvent EXCEPT !.kind = "end_rejected",
                                               !.start = current_pos]
                    /\ pc' = "idle"
                    /\ UNCHANGED current_pos
            /\ UNCHANGED <<yy_match_index, yy_more_len, yy_rejected,
                           yy_current_pattern_id, yytext_buffer,
                           yytext_buffer_size, yytext, yyleng, streak, kept,
                           tried>>
       ELSE LET match == yy_matches[yy_match_index + 1]
                total_len == yy_more_len + match.length
                rule == RuleOf(dfa, match.state)
                act == acts[rule]
                text == SubSeq(buffer, current_pos + 1, current_pos + match.length)
            IN \E g \in (IF yytext_buffer = <<>> /\ yy_more_len > 0
                         THEN Garbage ELSE {0}) :
                LET copied == yytext_copy(yytext_buffer, yy_more_len,
                                          match.length, current_pos, g)
                IN /\ yytext_buffer' = copied
                   /\ yytext_buffer_size' =
                         IF yytext_buffer = <<>> \/ total_len + 1 > yytext_buffer_size
                         THEN total_len + 1 ELSE yytext_buffer_size
                   /\ yytext' = SubSeq(copied, 1, total_len)
                   /\ yyleng' = total_len
                   /\ yy_more_len' = IF act = "yymore"
                                     THEN yymore(yy_more_len, total_len)
                                     ELSE yy_more_len
                   /\ yy_rejected' = IF act = "REJECT" THEN 1 ELSE 0
                   /\ last' = [NoEvent EXCEPT
                                 !.kind = "action", !.start = current_pos,
                                 !.len = match.length, !.index = yy_match_index,
                                 !.state = match.state, !.rule = rule,
                                 !.act = act, !.text = text,
                                 !.yytext = SubSeq(copied, 1, total_len),
                                 !.yyleng = total_len, !.more_len = yy_more_len,
                                 !.streak = streak, !.kept = kept,
                                 !.tried = tried]
                   /\ tried' = tried \cup {yy_match_index}
                   /\ IF act = "REJECT"
                      THEN /\ yy_match_index' = next_alternative(yy_match_index)
                           /\ yy_current_pattern_id' = match.pattern_id
                           /\ pc' = "process_match"
                           /\ UNCHANGED <<current_pos, streak, kept>>
                      ELSE /\ current_pos' = current_pos + match.length
                           /\ yy_current_pattern_id' =
                                 IF yy_more_len' = 0 THEN -1 ELSE match.pattern_id
                           /\ streak' = IF act = "yymore"
                                        THEN (IF streak < 0 THEN 1 ELSE streak + 1)
                                        ELSE 0
                           /\ kept' = IF act = "yymore" THEN kept \o text ELSE <<>>
                           /\ pc' = "scan_token"
                           /\ UNCHANGED yy_match_index
    /\ UNCHANGED <<gvars, cfg, acts, yyin, buffer, buffer_end,
                   yy_current_token_start, yy_matches, yylineno, yycolumn,
                   input, calls, freads>>

ScanNext == YylexEntry \/ ScanToken \/ ProcessMatch

SpecScan == ScanInit /\ [][ScanNext]_vars

-----------------------------------------------------------------------------
(* Claims about the emitted scanner                                        *)

\* The lengths k at which the DFA, walked from offset start of the buffer,
\* is in a final state after k bytes.
RECURSIVE AcceptLensFrom(_, _, _, _, _)
AcceptLensFrom(d, state, pos, start, acc) ==
    IF pos >= buffer_end THEN acc
    ELSE LET next == transition(d, state, ByteAt(pos))
         IN IF next = -1 THEN acc
            ELSE Bind(IF next \in d.final_states
                      THEN acc \cup {pos + 1 - start} ELSE acc,
                      LAMBDA acc1 : AcceptLensFrom(d, next, pos + 1, start, acc1))

AcceptLens(start) == AcceptLensFrom(dfa, dfa.start_state, start, start, {})

NoReject == \A r \in DOMAIN acts : acts[r] # "REJECT"

\* C1: when no action invokes REJECT, the token whose action runs is the
\* longest prefix, from the token start, at which the DFA walk is in an
\* accepting state, however long it is.
C1_LongestPrefixSelected ==
    (last.kind = "action" /\ NoReject) => last.len = Max(AcceptLens(last.start))

\* The rules whose own pattern matches the text.
RulesMatching(text) ==
    {r \in 1 .. Len(ScannerRules[cfg]) :
        NFA_accepts(NFA_from(ScannerRules[cfg][r]), text)}

\* C4: when two rules match the same longest prefix and the action of the
\* earlier one invokes REJECT, the next alternative tried is the later rule
\* at the same length, on the same yytext, before any shorter match and
\* before any byte is skipped.
C4_RejectTriesLaterRuleSameLength ==
    LET longest == yy_matches[1]
        text == SubSeq(buffer, last.start + 1, last.start + longest.length)
        later == {r \in RulesMatching(text) : r > RuleOf(dfa, longest.state)}
    IN /\ (last.kind = "action" /\ last.index = 1 /\ later # {}) =>
              /\ last.len = longest.length
              /\ last.rule = Min(later)
              /\ last.text = text
       /\ (last.kind = "all_rejected" /\ Len(yy_matches) = 1) => later = {}

\* C5: when the most recent completed match did not call yymore(),
\* yy_more_len is 0 as the next match is set up, and the next action sees
\* only the newly matched bytes, also when an earlier match called yymore().
C5_MoreLenResetWithoutYymore ==
    (last.kind = "action" /\ last.streak = 0) =>
        /\ last.more_len = 0
        /\ last.yytext = last.text
        /\ last.yyleng = last.len

\* C6: after k >= 1 matches in a row whose actions called yymore(), the
\* action of the following match sees the concatenation of all k+1 matched
\* texts, and yyleng is their total length.
C6_YymoreConcatenates ==
    (last.kind = "action" /\ last.streak >= 1) =>
        /\ last.yytext = last.kept \o last.text
        /\ last.yyleng = Len(last.kept) + last.len

\* C7: yylex returns 0 only once yyin is exhausted: reaching buffer_end
\* while yyin still has data refills the buffer instead of returning.
C7_ReturnOnlyAtEndOfInput ==
    (pc = "idle" /\ calls >= 1) => yyin = <<>>

\* C8: the walk from a token start records no accepting state while input
\* remains exactly when the step is an error skip; the skip reports the byte
\* at the token start, advances current_pos by one and restarts scanning.
C8_UnexpectedByteSkipped ==
    /\ last.kind = "error" =>
          /\ AcceptLens(last.start) = {}
          /\ last.byte = ByteAt(last.start)
          /\ current_pos = last.start + 1
          /\ pc = "scan_token"
    /\ last.kind = "scan" => AcceptLens(last.start) # {}
    /\ last.kind = "end" => last.start = buffer_end

\* C8's case: an unexpected byte is skipped after a token was matched, and
\* input remains behind it.
C8_Witness ==
    /\ last.kind = "error" /\ last.start >= 1 /\ last.byte = B
    /\ yylineno = yylineno_init /\ yycolumn = yycolumn_init + 1
    /\ current_pos < buffer_end

\* The bytes consumed so far, of the whole input.
Consumed ==
    IF current_pos < 0 THEN <<>>
    ELSE SubSeq(input, 1, Len(input) - Len(yyin) - Len(buffer) + current_pos)

NewlinesIn(seq) == Cardinality({i \in DOMAIN seq : seq[i] = NL})
SinceNewline(seq) ==
    Len(seq) - (IF NewlinesIn(seq) = 0 THEN 0
                ELSE Max({i \in DOMAIN seq : seq[i] = NL}))

\* C9: yylineno is 1 plus the number of newlines consumed, and yycolumn the
\* number of bytes consumed since the last newline, counting the bytes of
\* matched tokens as well as skipped bytes.
C9_LineAndColumn ==
    pc \in {"idle", "scan_token"} =>
        /\ yylineno = 1 + NewlinesIn(Consumed)
        /\ yycolumn = SinceNewline(Consumed)

\* C10: no recorded match is tried twice for one token start; a rejected
\* attempt consumes nothing; and when all recorded matches were REJECTed
\* current_pos advances by exactly one byte from the token start and
\* scanning restarts there.
C10_AllRejectedSkipsOneByte ==
    /\ last.kind = "action" => last.index \notin last.tried
    /\ (last.kind = "action" /\ last.act = "REJECT") =>
          /\ pc = "process_match"
          /\ current_pos = yy_current_token_start
    /\ last.kind = "all_rejected" =>
          /\ tried = 0 .. Len(yy_matches) - 1
          /\ \A i \in DOMAIN yy_matches :
                acts[RuleOf(dfa, yy_matches[i].state)] = "REJECT"
          /\ current_pos = yy_current_token_start + 1
          /\ pc = "scan_token"
    /\ last.kind # "end_rejected"
    /\ (pc = "process_match" /\ yy_match_index >= Len(yy_matches)) =>
          current_pos < buffer_end

\* C10's case: two recorded matches were both REJECTed and the byte at the
\* token start was skipped.
C10_Witness ==
    /\ last.kind = "all_rejected"
    /\ Len(yy_matches) >= 2
    /\ tried = {0, 1}

-----------------------------------------------------------------------------
(* One regex AST -> NFA::from -> the NFA run on a word.                    *)

\* Largest lower bound of a repetition.
MaxRepeatMin == 2
\* Largest difference between the bounds of a repetition.
MaxRepeatSpan == 2
\* Longest word run through the NFA of one regex.
MaxRegexWord == 5

RegexWords == UNION {[1 .. k -> {A, B}] : k \in 0 .. MaxRegexWord}

\* The expressions a repetition is applied to: a, [ab], ab, a?
RepeatedRegexes ==
    {RChar(A), RClass({A, B}), RConcat(RChar(A), RChar(B)), ROption(RChar(A))}

\* X{m}, X{m,} and X{m,n} with m <= n.
BoundedRegexes ==
    {RBounded(x, m, mx) :
        x \in RepeatedRegexes,
        m \in 0 .. MaxRepeatMin,
        mx \in {<<>>} \cup {<<n>> : n \in 0 .. MaxRepeatMin + MaxRepeatSpan}}
      \ {r \in {RBounded(x, m, <<n>>) :
                   x \in RepeatedRegexes, m \in 0 .. MaxRepeatMin,
                   n \in 0 .. MaxRepeatMin + MaxRepeatSpan} :
            r.max[1] < r.min \/ r.max[1] > r.min + MaxRepeatSpan}

\* The leaves of the plain ASTs: a, b, [ab]
LeafRegexes == {RChar(A), RChar(B), RClass({A, B})}

\* One operator of Concat, Union, Kleene, Plus, Option over the ASTs of S.
OneOperator(S) ==
    {RConcat(l, r) : l \in S, r \in S} \cup {RUnion(l, r) : l \in S, r \in S}
      \cup {RKleene(x) : x \in S} \cup {RPlus(x) : x \in S}
      \cup {ROption(x) : x \in S}

\* The ASTs of Char, CharClass, Concat, Union, Kleene, Plus, Option with at
\* most two operators nested.
PlainRegexes ==
    LeafRegexes \cup OneOperator(LeafRegexes)
      \cup OneOperator(LeafRegexes \cup OneOperator(LeafRegexes))

RegexSamples == BoundedRegexes \cup PlainRegexes

RegexInit ==
    /\ gpc = "regex"
    /\ rules \in {<<r>> : r \in RegexSamples}
    /\ tagged = FALSE
    /\ nfa = NFA_default
    /\ build = NoBuild
    /\ word = <<>>
    /\ ScannerIdle
    /\ ParserIdle
    /\ FileIdle
    /\ emitted = <<>>
    /\ applied = NoCall
    /\ simulated = NoRun

\* NFA::from(regex)
Compile ==
    /\ gpc = "regex"
    /\ nfa' = NFA_from(rules[1])
    /\ gpc' = "compiled"
    /\ UNCHANGED <<rules, tagged, build, word, svars, pvars, fvars, evars>>

\* A word is picked and run through the NFA.
Accept ==
    /\ gpc = "compiled"
    /\ \E w \in RegexWords : word' = w
    /\ gpc' = "accepted"
    /\ UNCHANGED <<rules, tagged, nfa, build, svars, pvars, fvars, evars>>

RegexNext == Compile \/ Accept

SpecRegex == RegexInit /\ [][RegexNext]_vars

\* w is the concatenation of k words the NFA n accepts.
RECURSIVE InPower(_, _, _)
InPower(n, w, k) ==
    IF k = 0 THEN w = <<>>
    ELSE \E i \in 0 .. Len(w) :
            /\ NFA_accepts(n, SubSeq(w, 1, i))
            /\ InPower(n, SubSeq(w, i + 1, Len(w)), k - 1)

\* C11: the NFA of X{m,n}, m <= n, accepts exactly the concatenations of k
\* words of L(X) with m <= k <= n, and that of X{m,} exactly those with
\* k >= m (a word of length l that is a concatenation of k >= m words is one
\* of at most m + l words).
C11_BoundedRepeats ==
    (gpc = "accepted" /\ rules[1].op = "Bounded") =>
        LET r == rules[1]
            hi == IF r.max = <<>> THEN r.min + Len(word) ELSE r.max[1]
        IN NFA_accepts(nfa, word) <=>
              \E k \in r.min .. hi : InPower(NFA_from(r.inner), word, k)

\* C11's case: a{2,4} is given aaaaa, one repetition too many, and rejects.
C11_Witness ==
    /\ gpc = "accepted"
    /\ rules[1] = RBounded(RChar(A), 2, <<4>>)
    /\ word = [i \in 1 .. 5 |-> A]
    /\ ~NFA_accepts(nfa, word)

\* w is in the language of the regex, by the definition of the operators.
RECURSIVE Lang(_, _)
Lang(regex, w) ==
    CASE regex.op = "Char" -> w = <<regex.c>>
      [] regex.op = "CharClass" -> Len(w) = 1 /\ w[1] \in regex.set
      [] regex.op = "Concat" ->
            \E i \in 0 .. Len(w) :
                /\ Lang(regex.left, SubSeq(w, 1, i))
                /\ Lang(regex.right, SubSeq(w, i + 1, Len(w)))
      [] regex.op = "Union" -> Lang(regex.left, w) \/ Lang(regex.right, w)
      [] regex.op = "Kleene" ->
            \/ w = <<>>
            \/ \E i \in 1 .. Len(w) :
                  /\ Lang(regex.inner, SubSeq(w, 1, i))
                  /\ Lang(regex, SubSeq(w, i + 1, Len(w)))
      [] regex.op = "Plus" ->
            \E i \in 0 .. Len(w) :
                /\ Lang(regex.inner, SubSeq(w, 1, i))
                /\ Lang(RKleene(regex.inner), SubSeq(w, i + 1, Len(w)))
      [] regex.op = "Option" -> w = <<>> \/ Lang(regex.inner, w)

\* C16: for an AST of Char, CharClass, Concat, Union, Kleene, Plus and
\* Option the NFA of NFA::from accepts a word exactly when the word is in
\* the language of the regex.
C16_NFAAcceptsTheLanguage ==
    (gpc = "accepted" /\ rules[1] \in PlainRegexes) =>
        (NFA_accepts(nfa, word) <=> Lang(rules[1], word))

\* C16's case: ((a|b)+)* is given abba and accepts it, (ab)+ is given the
\* empty word and rejects it.
C16_Witness ==
    /\ gpc = "accepted"
    /\ \/ /\ rules[1] = RKleene(RPlus(RClass({A, B})))
          /\ word = <<A, B, B, A>>
          /\ NFA_accepts(nfa, word)
       \/ /\ rules[1] = RPlus(RConcat(RChar(A), RChar(B)))
          /\ word = <<>>
          /\ ~NFA_accepts(nfa, word)

-----------------------------------------------------------------------------
(* The regex parser (regex.rs, RegexParser).  A pattern is the Vec<char>   *)
(* of its characters, each written as its code point; pos counts from 0.   *)

\* The characters 32 .. 126, to write patterns and character literals with.
Printable ==
    <<" ", "!", "\"", "#", "$", "%", "&", "'", "(", ")", "*", "+", ",", "-",
      ".", "/", "0", "1", "2", "3", "4", "5", "6", "7", "8", "9", ":", ";",
      "<", "=", ">", "?", "@", "A", "B", "C", "D", "E", "F", "G", "H", "I",
      "J", "K", "L", "M", "N", "O", "P", "Q", "R", "S", "T", "U", "V", "W",
      "X", "Y", "Z", "[", "\\", "]", "^", "_", "backtick", "a", "b", "c", "d", "e",
      "f", "g", "h", "i", "j", "k", "l", "m", "n", "o", "p", "q", "r", "s",
      "t", "u", "v", "w", "x", "y", "z", "{", "|", "}", "~">>

\* The code point of a character literal.
Ord(ch) == 31 + CHOOSE i \in DOMAIN Printable : Printable[i] = ch

\* The Vec<char> of a pattern written as a tuple of characters.
Str(t) == [i \in DOMAIN t |-> Ord(t[i])]

CharRange(lo, hi) == {c \in Ord(lo) .. Ord(hi) : TRUE}

Digits == CharRange("0", "9")
Lower == CharRange("a", "z")
Upper == CharRange("A", "Z")
\* space, tab, newline, carriage return, vertical tab, form feed
Spaces == {32, 9, 10, 13, 11, 12}
WordChars == Lower \cup Upper \cup Digits \cup {Ord("_")}

RStartAnchor == [op |-> "StartAnchor"]
REndAnchor == [op |-> "EndAnchor"]

\* Option<char>::None
None == -1

\* Result::Ok of a parsing function: the value and the parser's pos after it.
Ok(v, p) == [ok |-> TRUE, val |-> v, pos |-> p, err |-> ""]
\* Result::Err
Err(msg) == [ok |-> FALSE, val |-> REmpty, pos |-> 0, err |-> msg]

current_char(chars, pos) == IF pos < Len(chars) THEN chars[pos + 1] ELSE None

peek(chars, pos, offset) == current_char(chars, pos + offset)

at_end(chars, pos) == pos >= Len(chars)

\* match_string: TRUE when the characters at pos are those of s (the parser
\* then advances by Len(s)).
match_string(chars, pos, s) ==
    \A i \in DOMAIN s : peek(chars, pos, i - 1) = s[i]

\* The first position from pos on that holds no ASCII digit.
RECURSIVE DigitsEnd(_, _)
DigitsEnd(chars, pos) ==
    IF current_char(chars, pos) \in Digits THEN DigitsEnd(chars, pos + 1)
    ELSE pos

\* str::parse::<usize> of the digits chars[from .. to).
RECURSIVE ParseUsize(_, _, _, _)
ParseUsize(chars, from, to, acc) ==
    IF from >= to THEN acc
    ELSE ParseUsize(chars, from + 1, to, 10 * acc + (chars[from + 1] - Ord("0")))

\* Patterns are short: the number never exceeds usize.
parse_number(chars, pos) ==
    LET end == DigitsEnd(chars, pos)
    IN IF end = pos THEN Err("Invalid number")
       ELSE Ok(ParseUsize(chars, pos, end, 0), end)

get_named_class(name) ==
    CASE name = Str(<<"a", "l", "p", "h", "a">>) -> <<Lower \cup Upper>>
      [] name = Str(<<"d", "i", "g", "i", "t">>) -> <<Digits>>
      [] name = Str(<<"a", "l", "n", "u", "m">>) -> <<Lower \cup Upper \cup Digits>>
      [] name = Str(<<"s", "p", "a", "c", "e">>) -> <<Spaces>>
      [] name = Str(<<"p", "u", "n", "c", "t">>) ->
            <<(33 .. 47) \cup (58 .. 64) \cup (91 .. 96) \cup (123 .. 126)>>
      [] name = Str(<<"g", "r", "a", "p", "h">>) -> <<33 .. 126>>
      [] name = Str(<<"p", "r", "i", "n", "t">>) -> <<32 .. 126>>
      [] name = Str(<<"x", "d", "i", "g", "i", "t">>) ->
            <<Digits \cup CharRange("a", "f") \cup CharRange("A", "F")>>
      [] name = Str(<<"b", "l", "a", "n", "k">>) -> <<{32, 9}>>
      [] name = Str(<<"c", "n", "t", "r", "l">>) -> <<(0 .. 31) \cup {127}>>
      [] name = Str(<<"l", "o", "w", "e", "r">>) -> <<Lower>>
      [] name = Str(<<"u", "p", "p", "e", "r">>) -> <<Upper>>
      [] OTHER -> <<>>

\* add_char_range: the characters start ..= end, or the error.
add_char_range(start, end) ==
    IF start > end THEN Err("Invalid character range")
    ELSE Ok(start .. end, 0)

\* The control character an escape letter stands for, or None.
EscapeLetter(c) ==
    CASE c = Ord("a") -> 7
      [] c = Ord("b") -> 8
      [] c = Ord("f") -> 12
      [] c = Ord("n") -> 10
      [] c = Ord("r") -> 13
      [] c = Ord("t") -> 9
      [] c = Ord("v") -> 11
      [] OTHER -> None

\* parse_escape_in_class, entered after the backslash: the characters it
\* inserts into chars.
parse_escape_in_class(chars, pos) ==
    LET c == current_char(chars, pos)
    IN CASE c = None -> Err("Escape at end of pattern")
         [] c = Ord("d") -> Ok(Digits, pos + 1)
         [] c = Ord("w") -> Ok(WordChars, pos + 1)
         [] c = Ord("s") -> Ok(Spaces, pos + 1)
         [] OTHER -> Ok({IF EscapeLetter(c) # None THEN EscapeLetter(c) ELSE c},
                        pos + 1)

OctalDigits == CharRange("0", "7")
HexDigits == Digits \cup CharRange("a", "f") \cup CharRange("A", "F")

\* char::to_digit(16)
HexValue(c) ==
    IF c \in Digits THEN c - Ord("0")
    ELSE IF c \in CharRange("a", "f") THEN c - Ord("a") + 10
    ELSE c - Ord("A") + 10

\* The octal escape: the first digit c at pos, then up to two more.
octal_escape(chars, pos) ==
    LET d1 == current_char(chars, pos + 1)
        n1 == IF d1 \in OctalDigits THEN 1 ELSE 0
        d2 == current_char(chars, pos + 2)
        n2 == IF n1 = 1 /\ d2 \in OctalDigits THEN 1 ELSE 0
        v0 == current_char(chars, pos) - Ord("0")
        v1 == IF n1 = 1 THEN 8 * v0 + (d1 - Ord("0")) ELSE v0
        v2 == IF n2 = 1 THEN 8 * v1 + (d2 - Ord("0")) ELSE v1
    IN Ok(RChar(v2), pos + 1 + n1 + n2)

\* The hex escape, entered after the x: exactly two hex digits.
hex_escape(chars, pos) ==
    LET d1 == current_char(chars, pos)
        d2 == current_char(chars, pos + 1)
    IN IF d1 = None THEN Err("Incomplete hex escape")
       ELSE IF d1 \notin HexDigits THEN Err("Expected hex digit in \\x escape")
       ELSE IF d2 = None THEN Err("Incomplete hex escape")
       ELSE IF d2 \notin HexDigits THEN Err("Expected hex digit in \\x escape")
       ELSE Ok(RChar(16 * HexValue(d1) + HexValue(d2)), pos + 2)

\* parse_escape, entered at the backslash.
parse_escape(chars, pos) ==
    LET c == current_char(chars, pos + 1)
        next == pos + 2
    IN CASE c = None -> Err("Escape at end of pattern")
         [] c = Ord("d") -> Ok(RClass(Digits), next)
         [] c = Ord("D") -> Ok(RNegClass(ASCII \ Digits), next)
         [] c = Ord("w") -> Ok(RClass(WordChars), next)
         [] c = Ord("W") -> Ok(RNegClass(ASCII \ WordChars), next)
         [] c = Ord("s") -> Ok(RClass(Spaces), next)
         [] c = Ord("S") -> Ok(RNegClass(ASCII \ Spaces), next)
         [] c # None /\ EscapeLetter(c) # None -> Ok(RChar(EscapeLetter(c)), next)
         [] c \in OctalDigits -> octal_escape(chars, pos + 1)
         [] c = Ord("x") -> hex_escape(chars, next)
         [] OTHER -> Ok(RChar(c), next)

\* concat with one more character of a literal.
LiteralPush(concat, c) ==
    IF concat = REmpty THEN RChar(c) ELSE RConcat(concat, RChar(c))

\* The while loop of parse_literal.
RECURSIVE literal_loop(_, _, _)
literal_loop(chars, pos, concat) ==
    LET c == current_char(chars, pos)
    IN IF c = None THEN Err("Unterminated string literal")
       ELSE IF c = Ord("\"") THEN Ok(concat, pos + 1)
       ELSE IF c = Ord("\\")
       THEN LET e == current_char(chars, pos + 1)
            IN IF e = None
               THEN Err("Unexpected end of pattern after escape character")
               ELSE literal_loop(chars, pos + 2,
                       LiteralPush(concat, IF EscapeLetter(e) # None
                                           THEN EscapeLetter(e) ELSE e))
       ELSE literal_loop(chars, pos + 1, LiteralPush(concat, c))

\* parse_literal, entered at the opening quote.
parse_literal(chars, pos) == literal_loop(chars, pos + 1, REmpty)

\* The first position from pos on that holds ':' (or the end).
RECURSIVE NameEnd(_, _)
NameEnd(chars, pos) ==
    IF current_char(chars, pos) \in {None, Ord(":")} THEN pos
    ELSE NameEnd(chars, pos + 1)

\* parse_named_class, entered at the '[' of "[:name:]": the set of the class.
parse_named_class(chars, pos) ==
    IF ~match_string(chars, pos + 1, Str(<<":">>))
    THEN Err("Expected ':' after '[' in named class")
    ELSE LET end == NameEnd(chars, pos + 2)
             class == get_named_class(SubSeq(chars, pos + 3, end))
         IN IF ~match_string(chars, end, Str(<<":", "]">>))
            THEN Err("Expected ':]' at end of named class")
            ELSE IF class = <<>> THEN Err("Unknown named character class")
            ELSE Ok(class[1], end + 2)

\* parse_posix_class, entered at the '[' of "[:name:]".
parse_posix_class(chars, pos, negated) ==
    IF ~match_string(chars, pos + 1, Str(<<":">>))
    THEN Err("Expected ':' after '[' in POSIX class")
    ELSE LET end == NameEnd(chars, pos + 2)
             class == get_named_class(SubSeq(chars, pos + 3, end))
         IN IF ~match_string(chars, end, Str(<<":", "]">>))
            THEN Err("Expected ':]' at end of POSIX class")
            ELSE IF current_char(chars, end + 2) # Ord("]")
            THEN Err("Expected ']' to close character class")
            ELSE IF class = <<>> THEN Err("Unknown POSIX character class")
            ELSE Ok(IF negated THEN RNegClass(class[1]) ELSE RClass(class[1]),
                    end + 3)

\* The while loop of parse_char_class: the set collected and the position
\* at which the loop ends.
RECURSIVE class_loop(_, _, _)
class_loop(chars, pos, set) ==
    LET c == current_char(chars, pos)
    IN IF c = None \/ c = Ord("]") THEN Ok(set, pos)
       ELSE IF c = Ord("[") /\ peek(chars, pos, 1) = Ord(":")
       THEN Bind(parse_named_class(chars, pos), LAMBDA r :
               IF r.ok THEN class_loop(chars, r.pos, set \cup r.val) ELSE r)
       ELSE IF c = Ord("\\")
       THEN Bind(parse_escape_in_class(chars, pos + 1), LAMBDA r :
               IF r.ok THEN class_loop(chars, r.pos, set \cup r.val) ELSE r)
       ELSE IF peek(chars, pos, 1) = Ord("-")
               /\ peek(chars, pos, 2) \notin {None, Ord("]")}
       THEN Bind(add_char_range(c, peek(chars, pos, 2)), LAMBDA r :
               IF r.ok THEN class_loop(chars, pos + 3, set \cup r.val) ELSE r)
       ELSE class_loop(chars, pos + 1, set \cup {c})

\* parse_char_class, entered at the '['.
parse_char_class(chars, pos) ==
    LET negated == current_char(chars, pos + 1) = Ord("^")
        first == IF negated THEN pos + 2 ELSE pos + 1
    IN IF current_char(chars, first) = Ord("[")
          /\ peek(chars, first, 1) = Ord(":")
       THEN parse_posix_class(chars, first, negated)
       ELSE Bind(class_loop(chars, first, {}), LAMBDA r :
               IF ~r.ok THEN r
               ELSE IF current_char(chars, r.pos) # Ord("]")
               THEN Err("Unclosed character class")
               ELSE Ok(IF negated THEN RNegClass(r.val) ELSE RClass(r.val),
                       r.pos + 1))

\* The `let max = ...` of parse_bounded: <<n>> for Some(n), <<>> for None.
parse_max(chars, min) ==
    IF current_char(chars, min.pos) # Ord(",") THEN Ok(<<min.val>>, min.pos)
    ELSE IF current_char(chars, min.pos + 1) = Ord("}")
    THEN Ok(<<>>, min.pos + 1)
    ELSE Bind(parse_number(chars, min.pos + 1), LAMBDA n :
            IF n.ok THEN Ok(<<n.val>>, n.pos) ELSE n)

\* parse_bounded, entered at the '{' that follows expr.
parse_bounded(chars, pos, expr) ==
    IF current_char(chars, pos) # Ord("{") THEN Ok(expr, pos)
    ELSE Bind(parse_number(chars, pos + 1), LAMBDA min :
            IF ~min.ok THEN min
            ELSE Bind(parse_max(chars, min), LAMBDA max :
                    IF ~max.ok THEN max
                    ELSE IF current_char(chars, max.pos) # Ord("}")
                    THEN Err("Expected '}'")
                    ELSE Ok(RBounded(expr, min.val, max.val), max.pos + 1)))

\* check_non_capturing_group: the characters it skips.
check_non_capturing_group(chars, pos) ==
    IF current_char(chars, pos) = Ord("?") /\ peek(chars, pos, 1) = Ord(":")
    THEN 2 ELSE 0

\* let mut expr = factors.remove(0); for factor in factors { Concat(expr, factor) }
RECURSIVE FoldFactors(_, _, _)
FoldFactors(expr, factors, i) ==
    IF i > Len(factors) THEN expr
    ELSE FoldFactors(RConcat(expr, factors[i]), factors, i + 1)

RECURSIVE parse_union(_, _)
RECURSIVE union_loop(_, _, _)
RECURSIVE parse_concat(_, _)
RECURSIVE concat_loop(_, _, _)
RECURSIVE parse_operator(_, _)
RECURSIVE parse_base(_, _)
RECURSIVE parse_group(_, _)

\* parse_group, entered at the '('.
parse_group(chars, pos) ==
    Bind(parse_union(chars, pos + 1 + check_non_capturing_group(chars, pos + 1)),
         LAMBDA r :
            IF ~r.ok THEN r
            ELSE IF current_char(chars, r.pos) # Ord(")")
            THEN Err("Unmatched parenthesis")
            ELSE Ok(r.val, r.pos + 1))

parse_base(chars, pos) ==
    LET c == current_char(chars, pos)
    IN CASE c = None -> Err("Unexpected end of pattern")
         [] c = Ord("(") -> parse_group(chars, pos)
         [] c = Ord("[") -> parse_char_class(chars, pos)
         [] c = Ord(".") -> Ok(RDot, pos + 1)
         [] c = Ord("\\") -> parse_escape(chars, pos)
         [] c = Ord("\"") -> parse_literal(chars, pos)
         [] c = Ord("$") \/ c = Ord("^") ->
               Err("Unexpected anchor in middle of pattern")
         [] OTHER -> Ok(RChar(c), pos + 1)

\* A parse_operator that goes on applying postfix operators as long as one
\* follows.
RECURSIVE apply_operators(_, _)
apply_operators(chars, r) ==
    IF ~r.ok THEN r
    ELSE Bind(current_char(chars, r.pos), LAMBDA c :
            CASE c = Ord("*") ->
                    apply_operators(chars, Ok(RKleene(r.val), r.pos + 1))
              [] c = Ord("+") ->
                    apply_operators(chars, Ok(RPlus(r.val), r.pos + 1))
              [] c = Ord("?") ->
                    apply_operators(chars, Ok(ROption(r.val), r.pos + 1))
              [] c = Ord("{") ->
                    apply_operators(chars, parse_bounded(chars, r.pos, r.val))
              [] OTHER -> r)

parse_operator_repeated(chars, pos) ==
    apply_operators(chars, parse_base(chars, pos))

parse_operator(chars, pos) ==
    Bind(parse_base(chars, pos), LAMBDA r :
        IF ~r.ok THEN r
        ELSE LET c == current_char(chars, r.pos)
             IN CASE c = Ord("*") -> Ok(RKleene(r.val), r.pos + 1)
                  [] c = Ord("+") -> Ok(RPlus(r.val), r.pos + 1)
                  [] c = Ord("?") -> Ok(ROption(r.val), r.pos + 1)
                  [] c = Ord("{") -> parse_bounded(chars, r.pos, r.val)
                  [] OTHER -> r)

\* The while loop of parse_concat: the factors and the position after them.
concat_loop(chars, pos, factors) ==
    LET c == current_char(chars, pos)
    IN IF c \in {None, Ord(")"), Ord("|"), Ord("$")} THEN Ok(factors, pos)
       ELSE Bind(parse_operator(chars, pos), LAMBDA r :
               IF r.ok THEN concat_loop(chars, r.pos, Append(factors, r.val))
               ELSE r)

parse_concat(chars, pos) ==
    Bind(concat_loop(chars, pos, <<>>), LAMBDA r :
        IF ~r.ok THEN r
        ELSE IF r.val = <<>> THEN Ok(REmpty, r.pos)
        ELSE Ok(FoldFactors(r.val[1], r.val, 2), r.pos))

\* The while loop of parse_union.
union_loop(chars, pos, left) ==
    IF current_char(chars, pos) # Ord("|") THEN Ok(left, pos)
    ELSE Bind(parse_concat(chars, pos + 1), LAMBDA right :
            IF right.ok
            THEN union_loop(chars, right.pos, RUnion(left, right.val))
            ELSE right)

parse_union(chars, pos) ==
    Bind(parse_concat(chars, pos), LAMBDA left :
        IF left.ok THEN union_loop(chars, left.pos, left.val) ELSE left)

\* RegexParser::parse
parse(chars) ==
    IF at_end(chars, 0) THEN Ok(REmpty, 0)
    ELSE LET start_anchored == current_char(chars, 0) = Ord("^")
         IN Bind(parse_union(chars, IF start_anchored THEN 1 ELSE 0), LAMBDA r :
                IF ~r.ok THEN r
                ELSE LET end_anchored == current_char(chars, r.pos) = Ord("$")
                         p == IF end_anchored THEN r.pos + 1 ELSE r.pos
                         e1 == IF end_anchored THEN RConcat(r.val, REndAnchor)
                               ELSE r.val
                     IN IF ~at_end(chars, p) THEN Err("Unexpected char")
                        ELSE Ok(IF start_anchored THEN RConcat(RStartAnchor, e1)
                                ELSE e1, p))

\* Regex::new
Regex_new(chars) == parse(chars)

-----------------------------------------------------------------------------
(* One pattern -> Regex::new -> NFA::from -> the NFA run on a character.   *)

\* Largest number written in a repetition.
MaxRepeatValue == 3
\* Most elements between the brackets of a bracket expression.
MaxClassElements == 2
\* Longest pattern of the patterns over OperatorChars.
MaxPatternLen == 3

\* The digit character of n < 10.
DigitChar(n) == Ord("0") + n

\* a{m}, a{m,}, a{m,n}
BoundedPatterns ==
    {Str(<<"a", "{">>) \o <<DigitChar(m)>> \o Str(<<"}">>) :
        m \in 0 .. MaxRepeatValue}
    \cup {Str(<<"a", "{">>) \o <<DigitChar(m)>> \o Str(<<",", "}">>) :
        m \in 0 .. MaxRepeatValue}
    \cup {Str(<<"a", "{">>) \o <<DigitChar(m)>> \o Str(<<",">>)
              \o <<DigitChar(n)>> \o Str(<<"}">>) :
        m \in 0 .. MaxRepeatValue, n \in 0 .. MaxRepeatValue}

\* . and the escapes
EscapePatterns ==
    {Str(<<".">>), Str(<<"\\", ".">>), Str(<<"\\", "n">>), Str(<<"\\", "t">>),
     Str(<<"\\", "d">>), Str(<<"\\", "D">>), Str(<<"\\", "w">>),
     Str(<<"\\", "W">>), Str(<<"\\", "s">>), Str(<<"\\", "S">>),
     Str(<<"\\", "x", "4", "1">>), Str(<<"\\", "x", "4">>),
     Str(<<"\\", "1", "0", "1">>), Str(<<"\\", "7", "7", "7">>),
     Str(<<"\\">>), Str(<<"\"", "a", " ", "b", "\"">>), Str(<<"\"", "a">>)}

\* What stands between the brackets: a, b-d, \d, [:digit:], [:upper:]
ClassElements ==
    {Str(<<"a">>), Str(<<"b", "-", "d">>), Str(<<"\\", "d">>),
     Str(<<"[", ":", "d", "i", "g", "i", "t", ":", "]">>),
     Str(<<"[", ":", "u", "p", "p", "e", "r", ":", "]">>)}

RECURSIVE Flatten(_)
Flatten(ss) == IF ss = <<>> THEN <<>> ELSE Head(ss) \o Flatten(Tail(ss))

\* [e1...ek] and [^e1...ek]
ClassPatterns ==
    {Str(<<"[">>) \o neg \o Flatten(es) \o Str(<<"]">>) :
        neg \in {<<>>, Str(<<"^">>)},
        es \in UNION {[1 .. k -> ClassElements] : k \in 1 .. MaxClassElements}}

AnchorPatterns ==
    {Str(<<"^", "a">>), Str(<<"a", "$">>), Str(<<"^", "a", "$">>),
     Str(<<"^">>), Str(<<"$">>), Str(<<"a", "^">>), Str(<<"a", "$", "b">>),
     Str(<<"^", "a", "|", "b", "$">>)}

OperatorChars == Str(<<"a", "|", "*", "?", "(", ")">>)

OperatorPatterns ==
    UNION {[1 .. k -> Range(OperatorChars)] : k \in 0 .. MaxPatternLen}

\* The postfix operators *, +, ?, {2} and {1,2}
PostfixOperators ==
    {Str(<<"*">>), Str(<<"+">>), Str(<<"?">>), Str(<<"{", "2", "}">>),
     Str(<<"{", "1", ",", "2", "}">>)}

\* a followed by two postfix operators.
DoubleOperatorPatterns ==
    {Str(<<"a">>) \o p \o q : p \in PostfixOperators, q \in PostfixOperators}

ParsePatterns ==
    BoundedPatterns \cup EscapePatterns \cup ClassPatterns \cup AnchorPatterns
      \cup OperatorPatterns \cup DoubleOperatorPatterns

ParseInit ==
    /\ gpc = "pattern"
    /\ pattern \in ParsePatterns
    /\ parsed = NoParse
    /\ rules = <<>> /\ tagged = FALSE /\ nfa = NFA_default /\ build = NoBuild
    /\ word = <<>>
    /\ ScannerIdle
    /\ FileIdle
    /\ emitted = <<>>
    /\ applied = NoCall
    /\ simulated = NoRun

\* Regex::new(pattern)
Parse ==
    /\ gpc = "pattern"
    /\ parsed' = Regex_new(pattern)
    /\ gpc' = "parsed"
    /\ UNCHANGED <<rules, tagged, nfa, build, word, pattern, svars, fvars,
                   evars>>

\* The AST reaches the arm `_ => panic!("Not implemented")` of NFA::from:
\* the arguments of a combinator are converted before the combinator runs.
RECURSIVE Panics(_)
Panics(regex) ==
    CASE regex.op \in {"StartAnchor", "EndAnchor"} -> TRUE
      [] regex.op \in {"Concat", "Union"} ->
            Panics(regex.left) \/ Panics(regex.right)
      [] regex.op \in {"Kleene", "Option", "Plus", "Bounded"} ->
            Panics(regex.inner)
      [] OTHER -> FALSE

\* NFA::from on the AST Regex::new returned.
Convert ==
    /\ gpc = "parsed"
    /\ parsed.ok
    /\ IF Panics(parsed.val)
       THEN gpc' = "panic" /\ nfa' = nfa
       ELSE gpc' = "built" /\ nfa' = NFA_from(parsed.val)
    /\ UNCHANGED <<rules, tagged, build, word, pvars, svars, fvars, evars>>

\* The NFA is run on the empty word or on one ASCII character.
MatchChar ==
    /\ gpc = "built"
    /\ \E w \in {<<>>} \cup {<<c>> : c \in ASCII} : word' = w
    /\ gpc' = "matched"
    /\ UNCHANGED <<rules, tagged, nfa, build, pvars, svars, fvars, evars>>

ParseNext == Parse \/ Convert \/ MatchChar

SpecParse == ParseInit /\ [][ParseNext]_vars

\* The pattern holds, at some position, a repetition {m,n} with both bounds
\* written and m > n.
InvertedRepeat(chars) ==
    \E i \in 1 .. Len(chars) :
        /\ chars[i] = Ord("{")
        /\ LET m == parse_number(chars, i)
           IN /\ m.ok
              /\ current_char(chars, m.pos) = Ord(",")
              /\ LET n == parse_number(chars, m.pos + 1)
                 IN n.ok /\ current_char(chars, n.pos) = Ord("}") /\ m.val > n.val

\* The AST holds a Bounded node with min > max.
RECURSIVE InvertedBounded(_)
InvertedBounded(regex) ==
    CASE regex.op \in {"Concat", "Union"} ->
            InvertedBounded(regex.left) \/ InvertedBounded(regex.right)
      [] regex.op \in {"Kleene", "Option", "Plus"} -> InvertedBounded(regex.inner)
      [] regex.op = "Bounded" ->
            \/ regex.max # <<>> /\ regex.min > regex.max[1]
            \/ InvertedBounded(regex.inner)
      [] OTHER -> FALSE

\* C12: Regex::new returns an error for every pattern that holds a
\* repetition {m,n} with both bounds present and m > n, and no AST it
\* returns holds a Bounded node with min > max.
C12_InvertedRepeatIsAnError ==
    gpc = "parsed" =>
        /\ InvertedRepeat(pattern) => ~parsed.ok
        /\ parsed.ok => ~InvertedBounded(parsed.val)

\* C13: the automaton built for the pattern `.` accepts every one-character
\* word over ASCII except the newline, and does not accept the newline.
C13_DotExcludesNewline ==
    (gpc = "matched" /\ pattern = Str(<<".">>) /\ Len(word) = 1) =>
        (NFA_accepts(nfa, word) <=> word[1] # NL)

\* The class an upper-case shortcut is the complement of.
ShortcutClass(chars) ==
    CASE chars = Str(<<"\\", "D">>) -> Digits
      [] chars = Str(<<"\\", "W">>) -> WordChars
      [] chars = Str(<<"\\", "S">>) -> Spaces

\* C14: the automaton built for \D accepts exactly the one-character words
\* over ASCII that are not digits, the one for \W exactly those that are not
\* word characters, the one for \S exactly those that are not white space.
C14_UpperCaseShortcutIsComplement ==
    (/\ gpc = "matched"
     /\ pattern \in {Str(<<"\\", "D">>), Str(<<"\\", "W">>), Str(<<"\\", "S">>)}
     /\ Len(word) = 1) =>
        (NFA_accepts(nfa, word) <=> word[1] \notin ShortcutClass(pattern))

NamedElements ==
    {Str(<<"[", ":", "d", "i", "g", "i", "t", ":", "]">>),
     Str(<<"[", ":", "u", "p", "p", "e", "r", ":", "]">>)}

\* The characters an element of a bracket expression stands for.
ElementSet(e) ==
    CASE e = Str(<<"a">>) -> {Ord("a")}
      [] e = Str(<<"b", "-", "d">>) -> {Ord("b"), Ord("c"), Ord("d")}
      [] e = Str(<<"\\", "d">>) -> Digits
      [] e = Str(<<"[", ":", "d", "i", "g", "i", "t", ":", "]">>) -> Digits
      [] e = Str(<<"[", ":", "u", "p", "p", "e", "r", ":", "]">>) -> Upper

\* C15: a bracket expression that holds a POSIX named class together with
\* other elements, the named class first or last, parses to a character
\* class whose set is the union of the sets of its elements.
C15_NamedClassWithOtherElements ==
    gpc = "parsed" =>
        \A neg \in BOOLEAN : \A e1, e2 \in ClassElements :
            (/\ (e1 \in NamedElements) # (e2 \in NamedElements)
             /\ pattern = Str(<<"[">>) \o (IF neg THEN Str(<<"^">>) ELSE <<>>)
                            \o e1 \o e2 \o Str(<<"]">>)) =>
                /\ parsed.ok
                /\ parsed.val = IF neg
                                THEN RNegClass(ElementSet(e1) \cup ElementSet(e2))
                                ELSE RClass(ElementSet(e1) \cup ElementSet(e2))

\* C17: NFA::from returns an NFA for every AST Regex::new returns, an AST
\* with StartAnchor or EndAnchor included: the conversion never aborts.
C17_FromReturnsForEveryParsedRegex ==
    gpc # "panic"

-----------------------------------------------------------------------------
(* The lexer source file (file.rs, LexFile::new).  A String is the tuple   *)
(* of its characters' code points; `lines` is content.split('\n').         *)

\* char::is_whitespace on ASCII
is_whitespace(c) == c \in {9, 10, 11, 12, 13, 32}

\* str::trim
trim(s) ==
    LET keep == {k \in DOMAIN s : ~is_whitespace(s[k])}
    IN IF keep = {} THEN <<>> ELSE SubSeq(s, Min(keep), Max(keep))

\* str::starts_with
starts_with(s, prefix) ==
    Len(s) >= Len(prefix) /\ SubSeq(s, 1, Len(prefix)) = prefix

\* str::find with a predicate given as the set of characters it holds for:
\* <<pos>> for Some(pos), <<>> for None.
find(s, chars) ==
    LET hits == {k \in DOMAIN s : s[k] \in chars}
    IN IF hits = {} THEN <<>> ELSE <<Min(hits) - 1>>

\* str::contains
contains(s, sub) ==
    \E k \in 0 .. Len(s) - Len(sub) : SubSeq(s, k + 1, k + Len(sub)) = sub

\* str::replace: every non-overlapping match of from, leftmost first.
RECURSIVE replace(_, _, _)
replace(s, from, to) ==
    IF Len(s) < Len(from) THEN s
    ELSE IF SubSeq(s, 1, Len(from)) = from
    THEN to \o replace(SubSeq(s, Len(from) + 1, Len(s)), from, to)
    ELSE <<Head(s)>> \o replace(Tail(s), from, to)

\* The order of String: by code points, a proper prefix first.
StringLess(a, b) ==
    \E k \in 1 .. Len(b) :
        /\ k <= Len(a) + 1
        /\ SubSeq(a, 1, k - 1) = SubSeq(b, 1, k - 1)
        /\ (k = Len(a) + 1 \/ a[k] < b[k])

\* The keys of a BTreeMap<String, _> in iteration order.
RECURSIVE SortedNames(_)
SortedNames(S) ==
    IF S = {} THEN <<>>
    ELSE LET first == CHOOSE a \in S : \A b \in S \ {a} : StringLess(a, b)
         IN <<first>> \o SortedNames(S \ {first})

max_iterations == 100

\* format!("{{{}}}", name)
macro_ref(name) == Str(<<"{">>) \o name \o Str(<<"}">>)

\* The for loop of expand_macros over the definitions from names[k] on.
RECURSIVE ExpandPass(_, _, _, _)
ExpandPass(st, defs, names, k) ==
    IF k > Len(names) THEN st
    ELSE IF contains(st.result, macro_ref(names[k]))
    THEN ExpandPass([st EXCEPT
                        !.result = replace(st.result, macro_ref(names[k]),
                                           defs[names[k]]),
                        !.changed = TRUE],
                    defs, names, k + 1)
    ELSE ExpandPass(st, defs, names, k + 1)

\* One iteration of the while loop of expand_macros; st is left as it is
\* once the loop's condition is false.
ExpandStep(st, defs, names) ==
    IF st.changed /\ st.iteration < max_iterations
    THEN ExpandPass([st EXCEPT !.changed = FALSE, !.iteration = @ + 1],
                    defs, names, 1)
    ELSE st

\* n iterations of the while loop, one half after the other.
RECURSIVE ExpandLoop(_, _, _, _)
ExpandLoop(st, defs, names, n) ==
    IF n = 1 THEN ExpandStep(st, defs, names)
    ELSE Bind(ExpandLoop(st, defs, names, n \div 2), LAMBDA half :
            ExpandLoop(half, defs, names, n - n \div 2))

\* expand_macros without the check of the iteration count after the loop.
expand_macros_without_bound_check(pattern_, defs) ==
    Bind(ExpandLoop([result |-> pattern_, changed |-> TRUE, iteration |-> 0],
                    defs, SortedNames(DOMAIN defs), max_iterations),
         LAMBDA st : [ok |-> TRUE, val |-> st.result, err |-> ""])

\* LexFile::expand_macros: definitions is a function from names to values.
expand_macros(pattern_, defs) ==
    Bind(ExpandLoop([result |-> pattern_, changed |-> TRUE, iteration |-> 0],
                    defs, SortedNames(DOMAIN defs), max_iterations),
         LAMBDA st :
            IF st.iteration >= max_iterations
            THEN [ok |-> FALSE, val |-> pattern_,
                  err |-> "Potential circular reference in macro definitions"]
            ELSE [ok |-> TRUE, val |-> st.result, err |-> ""])

\* The number of c in s.
CountChar(s, c) == Cardinality({k \in DOMAIN s : s[k] = c})

\* The brace balance after the first k characters of a line of a block.
BalanceAt(line, count, k) ==
    count + CountChar(SubSeq(line, 1, k), Ord("{"))
          - CountChar(SubSeq(line, 1, k), Ord("}"))

\* The for loop over the characters of a line inside an action block: it
\* breaks where the balance is 0.
BlockClosesIn(line, count) ==
    \E k \in DOMAIN line : BalanceAt(line, count, k) = 0

\* LexSection
Sections == {"Definitions", "Rules", "Code"}

Rule(pattern_, action) == [pattern |-> pattern_, action |-> action]

PendingPattern(pattern_, line_number) ==
    [pattern |-> pattern_, line_number |-> line_number]

\* What LexFile::new does not touch.
others == <<gpc, rules, tagged, nfa, build, word, pvars, svars,
            evars>>

\* The while loop is at its head with a line left.
AtLine == outcome.kind = "running" /\ idx < Len(lines)

\* let line = lines[idx].trim()
Line == trim(lines[idx + 1])

IsSeparator == Line = Str(<<"%", "%">>)

\* line.is_empty() || line.starts_with("//") || line.starts_with("#")
IsSkipped ==
    \/ Line = <<>>
    \/ starts_with(Line, Str(<<"/", "/">>))
    \/ starts_with(Line, Str(<<"#">>))

\* return Err(...)
Fail(msg, line_number) ==
    /\ outcome' = [kind |-> "Err", msg |-> msg, line |-> line_number]
    /\ UNCHANGED <<lines, idx, current_section, in_action_block, brace_count,
                   action_accumulator, pending_patterns, definitions,
                   file_rules, code>>

\* if line == "%%" { ... }
SectionSeparator ==
    /\ AtLine /\ IsSeparator
    /\ IF current_section = "Code"
       THEN Fail("Unexpected section separator", idx + 1)
       ELSE /\ current_section' =
                  IF current_section = "Definitions" THEN "Rules" ELSE "Code"
            /\ idx' = idx + 1
            /\ UNCHANGED <<lines, in_action_block, brace_count,
                           action_accumulator, pending_patterns, definitions,
                           file_rules, code, outcome>>
    /\ UNCHANGED others

\* Skip empty lines and comments
SkipLine ==
    /\ AtLine /\ ~IsSeparator /\ IsSkipped
    /\ idx' = idx + 1
    /\ UNCHANGED <<lines, current_section, in_action_block, brace_count,
                   action_accumulator, pending_patterns, definitions,
                   file_rules, code, outcome, others>>

\* The index after the %{ ... %} block opened at lines[from - 1]: the inner
\* while loop and the skip of the closing line.
BlockEnd(from) ==
    LET closing == {j \in from .. Len(lines) - 1 :
                       starts_with(trim(lines[j + 1]), Str(<<"%", "}">>))}
    IN IF closing = {} THEN Len(lines) ELSE Min(closing) + 1

\* definitions.insert(name, value)
insert(map, name, value) ==
    [n \in DOMAIN map \cup {name} |-> IF n = name THEN value ELSE map[n]]

\* The line `name value` of the definitions section, split at pos.
Define(pos) ==
    \E expanded \in {expand_macros(trim(SubSeq(Line, pos + 1, Len(Line))),
                                   definitions)} :
        IF ~expanded.ok THEN Fail(expanded.err, 0)
        ELSE /\ definitions' =
                   insert(definitions, trim(SubSeq(Line, 1, pos)), expanded.val)
             /\ idx' = idx + 1
             /\ UNCHANGED <<lines, current_section, in_action_block,
                            brace_count, action_accumulator, pending_patterns,
                            file_rules, code, outcome>>

\* LexSection::Definitions
DefinitionsLine ==
    /\ AtLine /\ ~IsSeparator /\ ~IsSkipped
    /\ current_section = "Definitions"
    /\ IF starts_with(Line, Str(<<"%", "{">>))
       THEN /\ idx' = BlockEnd(idx + 1)
            /\ UNCHANGED <<lines, current_section, in_action_block,
                           brace_count, action_accumulator, pending_patterns,
                           definitions, file_rules, code, outcome>>
       ELSE IF find(Line, {Ord(" ")}) # <<>>
       THEN Define(find(Line, {Ord(" ")})[1])
       ELSE /\ idx' = idx + 1
            /\ UNCHANGED <<lines, current_section, in_action_block,
                           brace_count, action_accumulator, pending_patterns,
                           definitions, file_rules, code, outcome>>
    /\ UNCHANGED others

\* One rule per pending pattern, with the action.
PendingRules(action) ==
    [k \in DOMAIN pending_patterns |-> Rule(pending_patterns[k].pattern, action)]

\* LexSection::Rules, inside a multi-line action block
ActionBlockLine ==
    /\ AtLine /\ ~IsSeparator /\ ~IsSkipped
    /\ current_section = "Rules" /\ in_action_block
    /\ IF BlockClosesIn(Line, brace_count)
       THEN /\ in_action_block' = FALSE
            /\ brace_count' = 0
            /\ file_rules' = file_rules
                  \o PendingRules(action_accumulator \o Line \o <<NL>>)
            /\ pending_patterns' = <<>>
            /\ action_accumulator' = <<>>
       ELSE /\ brace_count' = BalanceAt(Line, brace_count, Len(Line))
            /\ action_accumulator' = action_accumulator \o Line \o <<NL>>
            /\ UNCHANGED <<in_action_block, file_rules, pending_patterns>>
    /\ idx' = idx + 1
    /\ UNCHANGED <<lines, current_section, definitions, code, outcome, others>>

\* The three forms of action_start, for the expanded pattern.
RuleParsed(pattern_, action_start) ==
    /\ IF action_start = Str(<<"|">>)
       THEN /\ pending_patterns' =
                  Append(pending_patterns, PendingPattern(pattern_, idx + 1))
            /\ UNCHANGED <<in_action_block, brace_count, action_accumulator,
                           file_rules>>
       ELSE IF starts_with(action_start, Str(<<"{">>))
       THEN \E count \in {BalanceAt(Tail(action_start), 1,
                                    Len(action_start) - 1)} :
              /\ brace_count' = count
              /\ IF count > 0
                 THEN /\ in_action_block' = TRUE
                      /\ action_accumulator' = action_start \o <<NL>>
                      /\ pending_patterns' =
                            IF pending_patterns = <<>>
                            THEN <<PendingPattern(pattern_, idx + 1)>>
                            ELSE pending_patterns
                      /\ UNCHANGED file_rules
                 ELSE /\ file_rules' = file_rules \o
                            (IF pending_patterns # <<>>
                             THEN PendingRules(action_start \o <<NL>>)
                             ELSE <<Rule(pattern_, action_start \o <<NL>>)>>)
                      /\ pending_patterns' = <<>>
                      /\ action_accumulator' = <<>>
                      /\ UNCHANGED in_action_block
       ELSE /\ file_rules' = file_rules \o PendingRules(action_start)
                                \o <<Rule(pattern_, action_start)>>
            /\ pending_patterns' = <<>>
            /\ UNCHANGED <<in_action_block, brace_count, action_accumulator>>
    /\ idx' = idx + 1
    /\ UNCHANGED <<lines, current_section, definitions, code, outcome>>

\* The rule line split at pos.
SplitRule(pos) ==
    \E expanded \in {expand_macros(trim(SubSeq(Line, 1, pos)), definitions)} :
        IF ~expanded.ok THEN Fail(expanded.err, 0)
        ELSE RuleParsed(expanded.val, trim(SubSeq(Line, pos + 1, Len(Line))))

\* LexSection::Rules, a pattern/action line
RuleLine ==
    /\ AtLine /\ ~IsSeparator /\ ~IsSkipped
    /\ current_section = "Rules" /\ ~in_action_block
    /\ IF find(Line, {c \in ASCII : is_whitespace(c)}) # <<>>
       THEN SplitRule(find(Line, {c \in ASCII : is_whitespace(c)})[1])
       ELSE Fail("Malformed rule", idx + 1)
    /\ UNCHANGED others

\* LexSection::Code: the line at idx is passed over, the lines after it are
\* appended to code, and the loop is left.
CodeLines ==
    /\ AtLine /\ ~IsSeparator /\ ~IsSkipped
    /\ current_section = "Code"
    /\ code' = code \o Flatten([k \in 1 .. Len(lines) - (idx + 1) |->
                                   lines[idx + 1 + k] \o <<NL>>])
    /\ idx' = Len(lines)
    /\ UNCHANGED <<lines, current_section, in_action_block, brace_count,
                   action_accumulator, pending_patterns, definitions,
                   file_rules, outcome, others>>

\* The end of LexFile::new without the check of file.rs 235-242.
Finish_without_pending_check ==
    /\ outcome.kind = "running" /\ idx >= Len(lines)
    /\ outcome' =
          IF in_action_block
          THEN [kind |-> "Err", msg |-> "Unclosed action block", line |-> 0]
          ELSE [kind |-> "Ok", msg |-> "", line |-> 0]
    /\ UNCHANGED <<lines, idx, current_section, in_action_block, brace_count,
                   action_accumulator, pending_patterns, definitions,
                   file_rules, code, others>>

\* After the loop: the two checks, then Ok(LexFile { definitions, rules, code }).
Finish ==
    /\ outcome.kind = "running" /\ idx >= Len(lines)
    /\ outcome' =
          IF pending_patterns # <<>>
          THEN [kind |-> "Err", msg |-> "Pattern without action",
                line |-> pending_patterns[1].line_number]
          ELSE IF in_action_block
          THEN [kind |-> "Err", msg |-> "Unclosed action block", line |-> 0]
          ELSE [kind |-> "Ok", msg |-> "", line |-> 0]
    /\ UNCHANGED <<lines, idx, current_section, in_action_block, brace_count,
                   action_accumulator, pending_patterns, definitions,
                   file_rules, code, others>>

FileNext ==
    \/ SectionSeparator \/ SkipLine \/ DefinitionsLine \/ ActionBlockLine
    \/ RuleLine \/ CodeLines \/ Finish

\* The definitions sections given: none; one macro; a %{ %} block, a line
\* of one word, a macro and a macro that refers to it.
DefinitionsInputs ==
    {<<>>,
     <<Str(<<"D", " ", "[", "0", "-", "9", "]">>)>>,
     <<Str(<<"%", "{">>),
       Str(<<"i", "n", "t", " ", "x", ";">>),
       Str(<<"%", "}">>),
       Str(<<"%", "o", "p", "t", "i", "o", "n">>),
       Str(<<"D", " ", " ", "[", "0", "-", "9", "]">>),
       Str(<<"N", " ", "{", "D", "}", "+">>)>>}

\* Rule lines with a one-statement action, and a line of one word.
PlainRuleInputs ==
    {<<Str(<<"a", "b", " ", "x", ";">>)>>,
     <<Str(<<"\"", "a", " ", "b", "\"", " ", "x", ";">>)>>,
     <<Str(<<"[", "a", " ", "b", "]", " ", "x", ";">>)>>,
     <<Str(<<"a", "\\", " ", "b", " ", "x", ";">>)>>,
     <<Str(<<"a">>) \o <<9>> \o Str(<<"x", ";">>)>>,
     <<Str(<<"{", "N", "}", " ", "x", ";">>)>>,
     <<Str(<<"a">>)>>}

\* No, one or two `|` lines, then a rule with a statement, a one-line block
\* or a block of three lines.
ChainRuleInputs ==
    {<<Str(<<"r", " ", "x", ";">>)>>,
     <<Str(<<"r", " ", "{", " ", "x", ";", " ", "}">>)>>,
     <<Str(<<"r", " ", "{">>),
       Str(<<"x", ";">>),
       Str(<<"}">>)>>,
     <<Str(<<"p", " ", "|">>),
       Str(<<"r", " ", "x", ";">>)>>,
     <<Str(<<"p", " ", "|">>),
       Str(<<"r", " ", "{", " ", "x", ";", " ", "}">>)>>,
     <<Str(<<"p", " ", "|">>),
       Str(<<"r", " ", "{">>),
       Str(<<"x", ";">>),
       Str(<<"}">>)>>,
     <<Str(<<"p", " ", "|">>),
       Str(<<"q", " ", "|">>),
       Str(<<"r", " ", "x", ";">>)>>,
     <<Str(<<"p", " ", "|">>),
       Str(<<"q", " ", "|">>),
       Str(<<"r", " ", "{", " ", "x", ";", " ", "}">>)>>,
     <<Str(<<"p", " ", "|">>),
       Str(<<"q", " ", "|">>),
       Str(<<"r", " ", "{">>),
       Str(<<"x", ";">>),
       Str(<<"}">>)>>}

\* Rules with a block: one line between the braces (blank, #, //, indented,
\* braces of its own), a nested block, text after the closing brace, and a
\* block never closed.
BlockRuleInputs ==
    {<<Str(<<"a", " ", "{">>),
       <<>>,
       Str(<<"}">>)>>,
     <<Str(<<"a", " ", "{">>),
       Str(<<"#", "d">>),
       Str(<<"}">>)>>,
     <<Str(<<"a", " ", "{">>),
       Str(<<"/", "/", "c">>),
       Str(<<"}">>)>>,
     <<Str(<<"a", " ", "{">>),
       Str(<<" ", " ", "y", ";">>),
       Str(<<"}">>)>>,
     <<Str(<<"a", " ", "{">>),
       Str(<<"{", " ", "z", ";", " ", "}">>),
       Str(<<"}">>)>>,
     <<Str(<<"a", " ", "{">>),
       Str(<<"i", "f", " ", "(", "y", ")", " ", "{">>),
       Str(<<"z", ";">>),
       Str(<<"}">>),
       Str(<<"}">>)>>,
     <<Str(<<"a", " ", "{">>),
       Str(<<"x", ";", " ", "}", " ", "y", ";">>)>>,
     <<Str(<<"a", " ", "{">>),
       Str(<<"x", ";">>)>>}

\* A `|` line with no rule after it.
DanglingRuleInputs ==
    {<<Str(<<"p", " ", "|">>)>>}

\* No second separator, or one with four lines after it.
TrailerInputs ==
    {<<>>,
     <<Str(<<"%", "%">>),
       Str(<<"i", "n", "t", " ", "m", "a", "i", "n", ";">>),
       <<>>,
       Str(<<"/", "/", "t">>),
       Str(<<"i", "n", "t", " ", "y", ";">>)>>}

\* Definitions sections about macros: a macro that refers to itself, the
\* same with a second macro that refers to the first, two that refer to
\* each other, one that refers to a name never defined, and
\* one that refers to a macro defined before it.
MacroDefinitionsInputs ==
    {<<Str(<<"A", " ", "{", "A", "}">>)>>,
     <<Str(<<"A", " ", "{", "A", "}">>),
       Str(<<"B", " ", "{", "A", "}">>)>>,
     <<Str(<<"A", " ", "{", "B", "}">>),
       Str(<<"B", " ", "{", "A", "}">>)>>,
     <<Str(<<"N", " ", "{", "X", "}", "+">>)>>,
     <<Str(<<"D", " ", "[", "0", "-", "9", "]">>),
       Str(<<"N", " ", "{", "D", "}", "+">>)>>}

\* Rule lines whose patterns refer to the macros A, X, N, D and N, and to none.
MacroRuleInputs ==
    {<<Str(<<"{", "A", "}", " ", "x", ";">>)>>,
     <<Str(<<"{", "X", "}", " ", "x", ";">>)>>,
     <<Str(<<"{", "N", "}", " ", "x", ";">>)>>,
     <<Str(<<"{", "D", "}", "{", "N", "}", " ", "x", ";">>)>>,
     <<Str(<<"a", "b", " ", "x", ";">>)>>}

\* Definitions sections whose %{ block has no %} line.
UnclosedDefinitionsInputs ==
    {<<Str(<<"%", "{">>),
       Str(<<"i", "n", "t", " ", "x", ";">>)>>,
     <<Str(<<"D", " ", "[", "0", "-", "9", "]">>),
       Str(<<"%", "{">>),
       Str(<<"i", "n", "t", " ", "x", ";">>)>>}

RuleGroups ==
    PlainRuleInputs \cup ChainRuleInputs \cup BlockRuleInputs
      \cup DanglingRuleInputs

\* The files: a definitions section, the separator, one or two groups of
\* rule lines, and the trailer; and the files about macros and about
\* unclosed %{ blocks, with one rule line.
Files ==
    {d \o <<Str(<<"%", "%">>)>> \o g \o t :
        d \in DefinitionsInputs,
        g \in RuleGroups \cup {g1 \o g2 : g1 \in RuleGroups, g2 \in RuleGroups},
        t \in TrailerInputs}
      \cup {d \o <<Str(<<"%", "%">>)>> \o g \o t :
               d \in MacroDefinitionsInputs \cup UnclosedDefinitionsInputs,
               g \in MacroRuleInputs,
               t \in TrailerInputs}

FileInit ==
    /\ GenIdle /\ ScannerIdle /\ ParserIdle
    /\ lines \in Files
    /\ idx = 0
    /\ current_section = "Definitions"
    /\ in_action_block = FALSE
    /\ brace_count = 0
    /\ action_accumulator = <<>>
    /\ pending_patterns = <<>>
    /\ definitions = <<>>
    /\ file_rules = <<>>
    /\ code = <<>>
    /\ outcome = [kind |-> "running", msg |-> "", line |-> 0]

SpecFile == FileInit /\ [][FileNext]_vars

\* The position of the first whitespace of line, from its k-th character
\* on, that is not inside "...", not inside [...] and not after a
\* backslash: <<pos>>, or <<>> when there is none.
RECURSIVE UnprotectedWhitespace(_, _, _, _)
UnprotectedWhitespace(line, k, quoted, bracketed) ==
    IF k > Len(line) THEN <<>>
    ELSE IF line[k] = Ord("\\")
    THEN UnprotectedWhitespace(line, k + 2, quoted, bracketed)
    ELSE IF quoted
    THEN UnprotectedWhitespace(line, k + 1, line[k] # Ord("\""), FALSE)
    ELSE IF bracketed
    THEN UnprotectedWhitespace(line, k + 1, FALSE, line[k] # Ord("]"))
    ELSE IF is_whitespace(line[k]) THEN <<k - 1>>
    ELSE UnprotectedWhitespace(line, k + 1, line[k] = Ord("\""),
                               line[k] = Ord("["))

\* A rule line is about to be split.
AtRuleLine ==
    /\ AtLine /\ ~IsSeparator /\ ~IsSkipped
    /\ current_section = "Rules" /\ ~in_action_block

\* C18: a rule line is split into pattern and action at its first
\* whitespace that is not inside a quoted literal, not inside a bracket
\* expression and not escaped.  (Read on the lines `pattern statement`
\* with no macro reference and no `|` line before them: the rule pushed
\* has the characters before that whitespace as its pattern and the
\* trimmed rest as its action.)
C18_SplitAtUnprotectedWhitespace ==
    [][(/\ AtRuleLine
        /\ pending_patterns = <<>>
        /\ UnprotectedWhitespace(Line, 1, FALSE, FALSE) # <<>>
        /\ ~contains(Line, Str(<<"{">>))
        /\ ~contains(Line, Str(<<"|">>)))
       => file_rules' =
             Append(file_rules,
                    Rule(SubSeq(Line, 1,
                                UnprotectedWhitespace(Line, 1, FALSE, FALSE)[1]),
                         trim(SubSeq(Line,
                                UnprotectedWhitespace(Line, 1, FALSE, FALSE)[1] + 1,
                                Len(Line)))))]_vars

\* The patterns of a sequence of rules.
PatternsOf(rs) == [k \in DOMAIN rs |-> rs[k].pattern]

\* The patterns a group of ChainRuleInputs declares: p and q as far as
\* their `|` lines are there, then r.
DeclaredPatterns(g) ==
    SubSeq(<<Str(<<"p">>), Str(<<"q">>)>>, 1,
           Cardinality({n \in DOMAIN g : g[n][Len(g[n])] = Ord("|")}))
      \o <<Str(<<"r">>)>>

\* C19: after the lines `p |`, `q |` (or `p |` alone) and a rule `r action`
\* the rules list holds p, q, r (or p, r) in this order and every one of
\* them has the same action, whether the action is a statement, a block
\* on one line or a block of several lines.
C19_PendingPatternsShareTheNextAction ==
    \A d \in DefinitionsInputs, g \in ChainRuleInputs, t \in TrailerInputs :
        (/\ lines = d \o <<Str(<<"%", "%">>)>> \o g \o t
         /\ outcome.kind # "running") =>
            /\ outcome.kind = "Ok"
            /\ PatternsOf(file_rules) = DeclaredPatterns(g)
            /\ \A k \in DOMAIN file_rules :
                  file_rules[k].action = file_rules[1].action

\* The lines of a block rule `a {` ... from the brace on, each trimmed and
\* ended by a newline.
BlockText(g) ==
    Str(<<"{">>) \o <<NL>>
      \o Flatten([k \in 1 .. Len(g) - 1 |-> trim(g[k + 1]) \o <<NL>>])

\* The groups of BlockRuleInputs whose brace balance returns to 0, on
\* their last line.
ClosedBlockInputs ==
    {g \in BlockRuleInputs :
        BalanceAt(Flatten(g), 0, Len(Flatten(g))) <= 0}

\* C20: the action stored for a rule with a block holds every line from
\* the opening brace to the line on which the brace balance returns to 0,
\* in order, none left out (a blank line, a line starting with # or //
\* included), and the block ends at that line.
C20_BlockKeepsEveryLine ==
    \A d \in DefinitionsInputs, g \in ClosedBlockInputs, t \in TrailerInputs :
        (/\ lines = d \o <<Str(<<"%", "%">>)>> \o g \o t
         /\ outcome.kind # "running") =>
            /\ outcome.kind = "Ok"
            /\ file_rules = <<Rule(Str(<<"a">>), BlockText(g))>>

\* The names NAME of the references {NAME} in s: letters, digits and _
\* between the braces, at least one.
ReferencedNames(s) ==
    {SubSeq(s, jk[1] + 1, jk[2] - 1) :
        jk \in {jk \in (DOMAIN s) \X (DOMAIN s) :
            /\ jk[1] + 1 < jk[2]
            /\ s[jk[1]] = Ord("{") /\ s[jk[2]] = Ord("}")
            /\ \A n \in jk[1] + 1 .. jk[2] - 1 : s[n] \in WordChars}}

\* C23: a result Ok(LexFile) holds no reference {NAME} to a NAME without a
\* macro definition, neither in a rule's pattern nor in the value of a
\* definition: such a reference makes LexFile::new return an error.
C23_UnknownMacroIsAnError ==
    outcome.kind = "Ok" =>
        /\ \A k \in DOMAIN file_rules :
              ReferencedNames(file_rules[k].pattern) \subseteq DOMAIN definitions
        /\ \A n \in DOMAIN definitions :
              ReferencedNames(definitions[n]) \subseteq DOMAIN definitions

\* The defined names reached from the names of S through the references in
\* the values of the definitions.
RECURSIVE ReferenceClosure(_, _)
ReferenceClosure(S, defs) ==
    LET next == S \cup UNION {ReferencedNames(defs[n]) \cap DOMAIN defs : n \in S}
    IN IF next = S THEN S ELSE ReferenceClosure(next, defs)

\* The text refers, directly or through other macros, to a macro whose
\* value leads back to itself: substitution never reaches a fixed point.
Circular(text, defs) ==
    \E n \in ReferenceClosure(ReferencedNames(text) \cap DOMAIN defs, defs) :
        n \in ReferenceClosure(ReferencedNames(defs[n]) \cap DOMAIN defs, defs)

CircularMessage == "Potential circular reference in macro definitions"

\* The text a step of the loop gives to expand_macros: the value of a
\* definition line or the pattern of a rule line (<<>> for other lines).
ExpandedText ==
    IF current_section = "Definitions" /\ find(Line, {Ord(" ")}) # <<>>
    THEN trim(SubSeq(Line, find(Line, {Ord(" ")})[1] + 1, Len(Line)))
    ELSE IF current_section = "Rules" /\ ~in_action_block
            /\ find(Line, {c \in ASCII : is_whitespace(c)}) # <<>>
    THEN trim(SubSeq(Line, 1, find(Line, {c \in ASCII : is_whitespace(c)})[1]))
    ELSE <<>>

\* C24: expand_macros ends for every text and definitions map LexFile::new
\* gives it; it returns the error when the text leads to a self- or
\* mutually-referential macro, and a text it returns with Ok (the value a
\* definition line stores, the pattern a rule line stores) holds no
\* reference to a name of the map it was given.
C24_ExpansionEndsInErrorOrFixedPoint ==
    [][(AtLine /\ ~IsSeparator /\ ~IsSkipped
          /\ ~starts_with(Line, Str(<<"%", "{">>))) =>
        /\ Circular(ExpandedText, definitions) =>
              outcome' = [kind |-> "Err", msg |-> CircularMessage, line |-> 0]
        /\ \A n \in DOMAIN definitions' :
              (n \notin DOMAIN definitions \/ definitions'[n] # definitions[n]) =>
                  ReferencedNames(definitions'[n]) \cap DOMAIN definitions = {}
        /\ \A k \in DOMAIN file_rules' :
              ReferencedNames(file_rules'[k].pattern) \cap DOMAIN definitions = {}
        /\ \A k \in DOMAIN pending_patterns' :
              ReferencedNames(pending_patterns'[k].pattern)
                 \cap DOMAIN definitions = {}]_vars

\* C24's case: a rule pattern refers to a macro that refers to itself, and
\* LexFile::new has returned the error of expand_macros.
C24_Witness ==
    /\ outcome = [kind |-> "Err", msg |-> CircularMessage, line |-> 0]
    /\ current_section = "Rules"
    /\ Circular(ExpandedText, definitions)

\* C25: for a file whose definitions section opens a %{ block that no %}
\* line closes, LexFile::new returns an error.
C25_UnclosedCodeBlockIsAnError ==
    \A d \in UnclosedDefinitionsInputs, g \in MacroRuleInputs,
       t \in TrailerInputs :
        (/\ lines = d \o <<Str(<<"%", "%">>)>> \o g \o t
         /\ outcome.kind # "running") =>
            outcome.kind = "Err"

\* The rules section has ended, at the second %% or at the end of the file,
\* with patterns still waiting for an action.
RulesEndedPending ==
    /\ outcome.kind = "running"
    /\ pending_patterns # <<>>
    /\ current_section = "Code" \/ (current_section = "Rules" /\ ~AtLine)

\* C26: once the rules section has ended with `|` patterns pending, no step
\* of LexFile::new discharges them or returns a LexFile, and the step after
\* the last line returns the error "Pattern without action" with the line of
\* the first pending pattern.
C26_PendingAtEndOfRulesIsAnError ==
    [][RulesEndedPending =>
          /\ pending_patterns' = pending_patterns
          /\ outcome'.kind # "Ok"
          /\ ~AtLine =>
                outcome' = [kind |-> "Err", msg |-> "Pattern without action",
                            line |-> pending_patterns[1].line_number]]_vars

\* Reached after the second %% and after the trailer lines.
C26_Witness ==
    /\ outcome.kind = "Err" /\ outcome.msg = "Pattern without action"
    /\ current_section = "Code"
    /\ code # <<>>
    /\ pending_patterns # <<>>

\* The positions of the separator lines of a file.
Separators(ls) == {k \in DOMAIN ls : trim(ls[k]) = Str(<<"%", "%">>)}

\* The lines after the second separator, each followed by a newline.
TrailerText(ls) ==
    LET second == CHOOSE k \in Separators(ls) :
                      Cardinality({j \in Separators(ls) : j < k}) = 1
    IN  Flatten([k \in 1 .. Len(ls) - second |-> ls[second + k] \o <<NL>>])

\* C21: the trailer stored in LexFile.code is every line after the
\* second %% separator, in order and unchanged.
C21_TrailerIsVerbatim ==
    (outcome.kind = "Ok" /\ current_section = "Code") =>
        code = TrailerText(lines)

\* The positions of the lines between a %{ line of the definitions section
\* and the %} line that closes it.
PreludeLines(ls) ==
    {k \in DOMAIN ls :
        /\ \A j \in 1 .. k : j \notin Separators(ls)
        /\ ~starts_with(trim(ls[k]), Str(<<"%", "}">>))
        /\ \E a \in 1 .. k - 1 :
              /\ starts_with(trim(ls[a]), Str(<<"%", "{">>))
              /\ \A j \in a + 1 .. k :
                    ~starts_with(trim(ls[j]), Str(<<"%", "}">>))
        /\ \E b \in k + 1 .. Len(ls) :
              /\ starts_with(trim(ls[b]), Str(<<"%", "}">>))
              /\ \A j \in k .. b : j \notin Separators(ls)}

\* The text is held by some field of the LexFile.
RetainedByLexFile(text) ==
    \/ contains(code, text)
    \/ \E n \in DOMAIN definitions : contains(definitions[n], text)
    \/ \E k \in DOMAIN file_rules :
          contains(file_rules[k].pattern, text)
            \/ contains(file_rules[k].action, text)

\* C22: every line between a %{ line and its closing %} line of the
\* definitions section is retained in the LexFile that LexFile::new returns.
C22_PreludeIsRetained ==
    outcome.kind = "Ok" =>
        \A k \in PreludeLines(lines) : RetainedByLexFile(lines[k])

-----------------------------------------------------------------------------
(* CodeGenerator (code.rs)                                                 *)
(* The output text is a sequence of pieces, one for each push_str: its     *)
(* format string and the values put into its holes.  A char and a String   *)
(* are given by their code points.                                         *)

\* Most runs of CodeGenerator::code on one DFA.
MaxRuns == 2

Piece(fmt, args) == [fmt |-> fmt, args |-> args]

\* The orders in which `for x in &set` visits a BTreeSet<StateID>, and
\* `for (k, v) in &map` the keys of a BTreeMap<StateID, _>: ascending only.
Reverse(s) == [k \in DOMAIN s |-> s[Len(s) + 1 - k]]

\* The same for a container whose order is not that of its keys.
iter_unordered(S) == {Ascending(S), Reverse(Ascending(S))}

iter(S) == {Ascending(S)}

\* derive(Ord) of TransitionSymbol: by variant in the order of declaration,
\* then, for two Chars, by char.
SymbolRank(sym) ==
    CASE sym.kind = "Epsilon" -> 0
      [] sym.kind = "Char" -> 1
      [] sym.kind = "CharClass" -> 2

SymbolLess(x, y) ==
    \/ SymbolRank(x) < SymbolRank(y)
    \/ x.kind = "Char" /\ y.kind = "Char" /\ x.c < y.c

\* Ord of (StateID, TransitionSymbol), the keys of dfa.transitions: by state,
\* then by symbol.
KeyLess(a, b) == a[1] < b[1] \/ (a[1] = b[1] /\ SymbolLess(a[2], b[2]))

RECURSIVE AscendingKeys(_)
AscendingKeys(K) ==
    IF K = {} THEN <<>>
    ELSE Bind(CHOOSE a \in K : \A b \in K \ {a} : KeyLess(a, b),
              LAMBDA first : <<first>> \o AscendingKeys(K \ {first}))

\* The orders in which `for ((from, symbol), to) in &self.dfa.transitions`
\* visits the map.
iter_keys(K) == {AscendingKeys(K)}

\* char_description(ch), with the comment it is pushed in.
char_description(ch) ==
    CASE ch = 10 -> Piece("            case {}: // \\n (newline)\n", <<ch % 256>>)
      [] ch = 13 ->
            Piece("            case {}: // \\r (carriage return)\n", <<ch % 256>>)
      [] ch = 9 -> Piece("            case {}: // \\t (tab)\n", <<ch % 256>>)
      [] ch = 32 -> Piece("            case {}: // space\n", <<ch % 256>>)
      [] ch \in (0 .. 31) \ {9, 10, 13} \/ ch = 127 ->
            Piece("            case {}: // ASCII {:?} (control)\n",
                  <<ch % 256, ch % 256>>)
      [] OTHER -> Piece("            case {}: // '{}'\n", <<ch % 256, ch>>)

\* generate_header, with the lines of file.definitions_code first.
generate_header(file) ==
    [k \in DOMAIN file.definitions_code |->
        Piece("{}\n", file.definitions_code[k])]
      \o <<Piece("#include \"libl.h\"\n", <<>>),
           Piece("#define YY_BUFFER_SIZE 16384\n", <<>>),
           Piece("#define ECHO printf(\"%s\\n\", yytext)\n", <<>>),
           Piece("static int yy_rejected = 0; // Flag indicating REJECT was called\n", <<>>),
           Piece("#define REJECT do {  \\\n", <<>>),
           Piece("    yy_rejected = 1; \\\n", <<>>),
           Piece("    return ;  \\\n", <<>>),
           Piece("} while (0)\n", <<>>),
           Piece("\n", <<>>),
           Piece("\n", <<>>)>>

\* The inner loop of generate_transition_table: the transitions of one state.
CharCases(d, state, keys) ==
    Flatten([k \in DOMAIN keys |->
        IF keys[k][1] = state /\ keys[k][2].kind = "Char"
        THEN <<char_description(keys[k][2].c),
               Piece("                return {};\n",
                     <<d.transitions[keys[k]]>>)>>
        ELSE <<>>])

\* generate_transition_table, given the orders its five loops visit
\* dfa.states, dfa.transitions, dfa.final_states (twice) and dfa.actions in.
generate_transition_table(d, states, keys, finals, finals2, acting) ==
    <<Piece("typedef int StateID;\n", <<>>),
      Piece("\n", <<>>),
      Piece("static StateID transition(StateID state, unsigned char c) {\n", <<>>),
      Piece("    switch(state) {\n", <<>>)>>
    \o Flatten([k \in DOMAIN states |->
          <<Piece("    case {}:\n", <<states[k]>>),
            Piece("        switch(c) {\n", <<>>)>>
          \o CharCases(d, states[k], keys)
          \o <<Piece("            default:\n", <<>>),
               Piece("                return -1; // Error state\n", <<>>),
               Piece("        }\n", <<>>)>>])
    \o <<Piece("    default:\n", <<>>),
         Piece("        return -1; // Error state\n", <<>>),
         Piece("    }\n", <<>>),
         Piece("}\n", <<>>),
         Piece("\n", <<>>),
         Piece("static int is_accepting(StateID state) {\n", <<>>),
         Piece("    switch(state) {\n", <<>>)>>
    \o Flatten([k \in DOMAIN finals |->
          <<Piece("    case {}:\n", <<finals[k]>>),
            Piece("        return 1;\n", <<>>)>>])
    \o <<Piece("    default:\n", <<>>),
         Piece("        return 0;\n", <<>>),
         Piece("    }\n", <<>>),
         Piece("}\n", <<>>),
         Piece("\n", <<>>),
         Piece("struct PatternInfo {\n", <<>>),
         Piece("    int pattern_id;\n", <<>>),
         Piece("    int priority;\n", <<>>),
         Piece("};\n\n", <<>>),
         Piece("static struct PatternInfo get_pattern_info(StateID state) {\n", <<>>),
         Piece("    struct PatternInfo info = {-1, -1};\n", <<>>),
         Piece("    switch(state) {\n", <<>>)>>
    \o Flatten([k \in DOMAIN finals2 |->
          <<Piece("    case {}:\n", <<finals2[k]>>),
            Piece("        info.pattern_id = {};\n", <<k - 1>>),
            Piece("        info.priority = {};\n",
                  <<Cardinality(d.final_states) - (k - 1)>>),
            Piece("        break;\n", <<>>)>>])
    \o <<Piece("    }\n", <<>>),
         Piece("    return info;\n", <<>>),
         Piece("}\n\n", <<>>),
         Piece("static void execute_action(StateID state) {\n", <<>>),
         Piece("    switch(state) {\n", <<>>)>>
    \o Flatten([k \in DOMAIN acting |->
          <<Piece("    case {}:\n", <<acting[k]>>),
            Piece("        {}\n", <<d.actions[acting[k]]>>),
            Piece("        break;\n", <<>>)>>])
    \o <<Piece("    default:\n", <<>>),
         Piece("        // No action for this state\n", <<>>),
         Piece("        break;\n", <<>>),
         Piece("    }\n", <<>>),
         Piece("}\n", <<>>),
         Piece("\n", <<>>)>>

\* generate_token_logic: a text that depends on neither the file nor the
\* DFA; what it does when compiled and run is the scanner above.
generate_token_logic ==
    <<Piece("// Global variables for REJECT and lexer state\n", <<>>)>>

\* CodeGenerator::code
CodeGenerator_code(file, d, states, keys, finals, finals2, acting) ==
    generate_header(file)
      \o generate_transition_table(d, states, keys, finals, finals2, acting)
      \o generate_token_logic
      \o <<Piece("{}", file.code)>>

\* The files a CodeGenerator is made with: with and without a prelude line
\* and a trailer.
GeneratorFiles ==
    {[definitions_code |-> p, code |-> t] :
        p \in {<<>>, <<Str(<<"i", "n", "t", " ", "x", ";">>)>>},
        t \in {<<>>, Str(<<"i", "n", "t", " ", "y", ";">>) \o <<NL>>}}

\* CodeGenerator::new(file, dfa).code()
Emit ==
    /\ gpc = "dfa"
    /\ Len(emitted) < MaxRuns
    /\ \E file \in GeneratorFiles,
          states \in iter(build.dfa.states),
          keys \in iter_keys(DOMAIN build.dfa.transitions),
          finals \in iter(build.dfa.final_states),
          finals2 \in iter(build.dfa.final_states),
          acting \in iter(DOMAIN build.dfa.actions) :
            emitted' = Append(emitted,
                [file |-> file, dfa |-> build.dfa,
                 text |-> CodeGenerator_code(file, build.dfa, states, keys,
                                             finals, finals2, acting)])
    /\ UNCHANGED <<gpc, rules, tagged, nfa, build, word, svars, pvars, fvars,
                   applied, simulated>>

\* The rule lists a DFA is emitted for: one pattern, and two.
EmitRuleLists ==
    {<<r>> : r \in Range(Patterns)} \cup (Range(Patterns) \X Range(Patterns))

EmitInit ==
    /\ gpc = "rules"
    /\ rules \in EmitRuleLists
    /\ tagged \in BOOLEAN
    /\ nfa = NFA_default
    /\ build = NoBuild
    /\ word = <<>>
    /\ ScannerIdle
    /\ ParserIdle
    /\ FileIdle
    /\ emitted = <<>>
    /\ applied = NoCall
    /\ simulated = NoRun

EmitNext == Merge \/ ConvertBegin \/ ConvertPop \/ Emit

SpecEmit == EmitInit /\ [][EmitNext]_vars

\* The pieces that open a case of a switch over the state, over the char,
\* and the pieces that open a function.
IsStateCase(piece) == piece.fmt = "    case {}:\n"

IsCharCase(piece) ==
    piece.fmt \in {char_description(ch).fmt : ch \in {0, 9, 10, 13, 32, A}}

IsFunction(piece) ==
    piece.fmt \in
        {"static StateID transition(StateID state, unsigned char c) {\n",
         "static int is_accepting(StateID state) {\n",
         "static struct PatternInfo get_pattern_info(StateID state) {\n",
         "static void execute_action(StateID state) {\n"}

\* Every two pieces of kind Is that follow each other in the text with no
\* piece of kind Stop between them have ascending first values.
AscendingRuns(text, Is(_), Stop(_)) ==
    \A S \in {SelectSeq(text, LAMBDA piece : Is(piece) \/ Stop(piece))} :
        \A k \in 1 .. Len(S) - 1 :
            (Is(S[k]) /\ Is(S[k + 1])) => S[k].args[1] < S[k + 1].args[1]

\* C27: two runs of CodeGenerator::code on equal DFAs with equal prelude and
\* trailer give the same text, and in every text the state cases of each
\* function (transitions, accepting states, pattern info, actions) ascend
\* by state id and the char cases of each state ascend by char value.
C27_EmittedTextIsDeterministic ==
    \A p \in DOMAIN emitted :
        /\ \A q \in DOMAIN emitted :
              (emitted[p].file = emitted[q].file
                 /\ emitted[p].dfa = emitted[q].dfa) =>
                    emitted[p].text = emitted[q].text
        /\ AscendingRuns(emitted[p].text, IsStateCase, IsFunction)
        /\ AscendingRuns(emitted[p].text, IsCharCase, IsStateCase)

\* Two runs with the same file on a DFA with two transitions from one state,
\* two final states and two actions.
C27_Witness ==
    /\ Len(emitted) = 2
    /\ emitted[1].file = emitted[2].file
    /\ emitted[1].file.definitions_code # <<>>
    /\ \E k \in DOMAIN build.dfa.transitions :
          \E j \in DOMAIN build.dfa.transitions : k[1] = j[1] /\ k[2] # j[2]
    /\ Cardinality(build.dfa.final_states) >= 2
    /\ Cardinality(DOMAIN build.dfa.actions) >= 2

\* C28: when DFA::from has returned, every DFA state whose NFA subset holds
\* an NFA final state is in dfa.final_states.
C28_SubsetWithFinalIsFinal ==
    gpc \in {"dfa", "walked"} =>
        \A S \in DOMAIN build.state_map :
            S \cap nfa.final_states # {} =>
                build.state_map[S] \in build.dfa.final_states

-----------------------------------------------------------------------------
(* The NFA combinators called one after another (nfa.rs 95-412)            *)

\* Most combinator calls made one after another.
MaxCombinators == 2

\* NFA::empty(), char('a'), char('b'), char_class([ab]), dot(),
\* negated_char_class([a])
NFALeaves ==
    {NFA_empty, NFA_char(A), NFA_char(B), NFA_char_class({A, B}), NFA_dot,
     NFA_negated_char_class({A})}

\* The second operands: [ab], and b with an action on its final state.
Operands == {NFA_char_class({A, B}), add_action(NFA_char(B), 1, 2)}

\* The (min, max) given to NFA::bounded: {0,0}, {1,2}, {2,}
Repeats == {<<0, <<0>>>>, <<1, <<2>>>>, <<2, <<>>>>}

Call(op, first, second) ==
    [op |-> op, first |-> first, second |-> second, n |-> applied.n + 1]

NFAInit ==
    /\ gpc = "combine"
    /\ nfa \in NFALeaves
    /\ rules = <<>> /\ tagged = FALSE /\ build = NoBuild /\ word = <<>>
    /\ ScannerIdle
    /\ ParserIdle
    /\ FileIdle
    /\ emitted = <<>>
    /\ applied = NoCall
    /\ simulated = NoRun

\* nfa.add_action(state, action) on a final state that has none.
AddAction ==
    /\ gpc = "combine"
    /\ \E state \in nfa.final_states \ DOMAIN nfa.actions :
          /\ nfa' = add_action(nfa, state, 1)
          /\ applied' = [Call("add_action", nfa, NFA_default)
                           EXCEPT !.n = applied.n]
    /\ UNCHANGED <<gpc, rules, tagged, build, word, svars, pvars, fvars,
                   emitted, simulated>>

\* nfa = NFA::concat(nfa, second)
CallConcat ==
    /\ gpc = "combine" /\ applied.n < MaxCombinators
    /\ \E second \in Operands :
          /\ nfa' = NFA_concat(nfa, second)
          /\ applied' = Call("concat", nfa, second)
    /\ UNCHANGED <<gpc, rules, tagged, build, word, svars, pvars, fvars,
                   emitted, simulated>>

\* nfa = NFA::union(nfa, second)
CallUnion ==
    /\ gpc = "combine" /\ applied.n < MaxCombinators
    /\ \E second \in Operands :
          /\ nfa' = NFA_union(nfa, second)
          /\ applied' = Call("union", nfa, second)
    /\ UNCHANGED <<gpc, rules, tagged, build, word, svars, pvars, fvars,
                   emitted, simulated>>

\* nfa = NFA::kleene(nfa), NFA::plus(nfa) or NFA::optional(nfa)
CallUnary ==
    /\ gpc = "combine" /\ applied.n < MaxCombinators
    /\ \/ nfa' = NFA_kleene(nfa) /\ applied' = Call("kleene", nfa, NFA_default)
       \/ nfa' = NFA_plus(nfa) /\ applied' = Call("plus", nfa, NFA_default)
       \/ nfa' = NFA_optional(nfa)
            /\ applied' = Call("optional", nfa, NFA_default)
    /\ UNCHANGED <<gpc, rules, tagged, build, word, svars, pvars, fvars,
                   emitted, simulated>>

\* nfa = NFA::bounded(nfa, min, max)
CallBounded ==
    /\ gpc = "combine" /\ applied.n < MaxCombinators
    /\ \E r \in Repeats :
          /\ nfa' = NFA_bounded(nfa, r[1], r[2])
          /\ applied' = Call("bounded", nfa, NFA_default)
    /\ UNCHANGED <<gpc, rules, tagged, build, word, svars, pvars, fvars,
                   emitted, simulated>>

\* nfa = NFA::concat_multiples(nfas) or NFA::union_multiples(nfas), for the
\* vectors [] and [second, nfa, second].
CallMultiples ==
    /\ gpc = "combine" /\ applied.n < MaxCombinators
    /\ \E second \in Operands :
          \E nfas \in {<<>>, <<second, nfa, second>>} :
             \/ /\ nfa' = NFA_concat_multiples(nfas)
                /\ applied' = Call("concat_multiples", nfa, second)
             \/ /\ nfa' = NFA_union_multiples(nfas)
                /\ applied' = Call("union_multiples", nfa, second)
    /\ UNCHANGED <<gpc, rules, tagged, build, word, svars, pvars, fvars,
                   emitted, simulated>>

NFANext ==
    AddAction \/ CallConcat \/ CallUnion \/ CallUnary \/ CallBounded
      \/ CallMultiples

SpecNFA == NFAInit /\ [][NFANext]_vars

\* The state of NFA::concat(first, second) that is the copy of state s of
\* first, and of state s of second: the states of first are copied first,
\* in ascending order, onto 0, 1, ..., then those of second.
ImageOfFirst(first, s) == Cardinality({t \in first.states : t < s})

ImageOfSecond(first, second, s) ==
    Cardinality(first.states) + Cardinality({t \in second.states : t < s})

\* C29: in NFA::concat(A, B) the finals are the images of B's finals, every
\* final of A has an epsilon transition to the image of B's start, no image
\* of a state of A carries an action, and the action keys are finals.
C29_ConcatDropsActionsOfFirst ==
    applied.op = "concat" =>
        /\ nfa.final_states =
              {ImageOfSecond(applied.first, applied.second, f) :
                  f \in applied.second.final_states}
        /\ \A f \in applied.first.final_states :
              [from |-> ImageOfFirst(applied.first, f), sym |-> Epsilon,
               to |-> ImageOfSecond(applied.first, applied.second,
                                    applied.second.start_state)]
                \in nfa.transitions
        /\ \A s \in applied.first.states :
              ImageOfFirst(applied.first, s) \notin DOMAIN nfa.actions
        /\ DOMAIN nfa.actions \subseteq nfa.final_states

\* The chars of the non-epsilon transitions of an NFA.
TransitionChars(n) ==
    UNION {IF t.sym.kind = "Char" THEN {t.sym.c}
           ELSE IF t.sym.kind = "CharClass" THEN t.sym.set
           ELSE {} : t \in n.transitions}

WellFormed(n) ==
    /\ n.states = 0 .. Cardinality(n.states) - 1
    /\ n.start_state \in n.states
    /\ n.final_states \subseteq n.states
    /\ DOMAIN n.actions \subseteq n.states
    /\ \A t \in n.transitions : t.from \in n.states /\ t.to \in n.states
    /\ n.final_states # {}
    /\ n.alphabet = TransitionChars(n)

\* C30: the NFA made by any sequence of combinator calls on the leaf
\* constructors is well formed: states 0..n-1, start, finals, action keys
\* and transition endpoints among them, a final state, and the alphabet
\* equal to the chars of the non-epsilon transitions.
C30_CombinatorsKeepNFAWellFormed == WellFormed(nfa)

\* After the last of the calls, made on an NFA that carries an action, with
\* a result of more states than a leaf has.
C30_Witness ==
    /\ applied.n = MaxCombinators
    /\ applied.op = "optional"
    /\ DOMAIN applied.first.actions # {}
    /\ Cardinality(nfa.states) > 4

\* C39: when the input ends inside a multi-line action block, LexFile::new
\* returns the error "Unclosed action block".
C39_UnclosedActionBlockIsReported ==
    (outcome.kind \notin {"off", "running"} /\ in_action_block
       /\ idx >= Len(lines)) =>
        outcome = [kind |-> "Err", msg |-> "Unclosed action block", line |-> 0]

\* The AST of expr with the postfix operator written op applied to it.
Postfix(op, expr) ==
    CASE op = Str(<<"*">>) -> RKleene(expr)
      [] op = Str(<<"+">>) -> RPlus(expr)
      [] op = Str(<<"?">>) -> ROption(expr)
      [] op = Str(<<"{", "2", "}">>) -> RBounded(expr, 2, <<2>>)
      [] op = Str(<<"{", "1", ",", "2", "}">>) -> RBounded(expr, 1, <<2>>)

\* expr followed by the characters of s as literal Chars, as parse_concat
\* folds its factors.
RECURSIVE ThenChars(_, _)
ThenChars(expr, s) ==
    IF s = <<>> THEN expr
    ELSE ThenChars(RConcat(expr, RChar(Head(s))), Tail(s))

\* C38: for `a` followed by two postfix operators, Regex::new returns no
\* error, applies the first operator to a, and parses the characters of the
\* second as literal Chars that follow.
C38_OnePostfixOperatorPerAtom ==
    \A p \in PostfixOperators, q \in PostfixOperators :
        (gpc # "pattern" /\ pattern = Str(<<"a">>) \o p \o q) =>
            /\ parsed.ok
            /\ parsed.val = ThenChars(Postfix(p, RChar(Ord("a"))), q)

\* a+* has been parsed.
C38_Witness ==
    /\ gpc # "pattern"
    /\ pattern = Str(<<"a", "+", "*">>)
    /\ parsed.ok
    /\ parsed.val = RConcat(RPlus(RChar(Ord("a"))), RChar(Ord("*")))

\* The characters of an AST: its Char nodes and the members of its classes.
RECURSIVE CharsOf(_)
CharsOf(regex) ==
    CASE regex.op = "Char" -> {regex.c}
      [] regex.op \in {"CharClass", "NegatedCharClass"} -> regex.set
      [] regex.op \in {"Concat", "Union"} ->
            CharsOf(regex.left) \cup CharsOf(regex.right)
      [] regex.op \in {"Kleene", "Plus", "Option", "Bounded"} ->
            CharsOf(regex.inner)
      [] OTHER -> {}

\* C33: every character of an AST that Regex::new returns has a code point
\* in 0..127, so the case label `ch as u8` of the emitter is the code point.
C33_CharsAreASCII ==
    (gpc # "pattern" /\ parsed.ok) =>
        \A ch \in CharsOf(parsed.val) : ch \in 0 .. 127 /\ ch % 256 = ch

\* C32: in the DFA that DFA::from returns, the keys of actions are exactly
\* the final states, every transition is labelled with a Char, and for each
\* state and char at most one transition of the state matches the char.
C32_DFAActionsAndSymbols ==
    gpc \in {"dfa", "walked"} =>
        /\ DOMAIN build.dfa.actions = build.dfa.final_states
        /\ \A k \in DOMAIN build.dfa.transitions : k[2].kind = "Char"
        /\ \A s \in build.dfa.states, ch \in build.dfa.alphabet :
              Cardinality({k \in DOMAIN build.dfa.transitions :
                              k[1] = s /\ matches(k[2], ch)}) <= 1

\* A finished DFA with two final states and a state with two transitions.
C32_Witness ==
    /\ gpc = "dfa"
    /\ Cardinality(build.dfa.final_states) >= 2
    /\ \E k \in DOMAIN build.dfa.transitions :
          \E j \in DOMAIN build.dfa.transitions : k[1] = j[1] /\ k[2] # j[2]

\* The DFA states reached from the states of S.
RECURSIVE DFAReach(_, _)
DFAReach(d, S) ==
    Bind(S \cup {d.transitions[k] : k \in {x \in DOMAIN d.transitions :
                                             x[1] \in S}},
         LAMBDA T : IF T = S THEN S ELSE DFAReach(d, T))

\* The result of DFA::from: states 0..n-1, one state for each subset of
\* state_map and one subset for each state, the subsets non-empty and
\* epsilon-closed, the transitions between states, every state reached
\* from state 0.
DFAShape ==
    /\ build.dfa.states = 0 .. Cardinality(build.dfa.states) - 1
    /\ Range(build.state_map) = build.dfa.states
    /\ \A S \in DOMAIN build.state_map :
          /\ S # {}
          /\ epsilon_closure(nfa, S) = S
          /\ \A T \in DOMAIN build.state_map :
                build.state_map[S] = build.state_map[T] => S = T
    /\ \A k \in DOMAIN build.dfa.transitions :
          k[1] \in build.dfa.states
            /\ build.dfa.transitions[k] \in build.dfa.states
    /\ DFAReach(build.dfa, {0}) = build.dfa.states

\* What DFA::from's while loop has left to do: the subsets of NFA states
\* not yet in state_map, counted twice, and the states waiting in the queue.
LoopMeasure ==
    2 * (2 ^ Cardinality(nfa.states) - Cardinality(DOMAIN build.state_map))
      + Len(build.queue)

\* C36: DFA::from leaves its loop (each iteration lowers a measure that
\* stays at zero or above), and its result has the states 0..n-1,
\* each for a distinct non-empty epsilon-closed set of NFA states, each
\* reached from state 0, and transitions between states only.
C36_DFAFromTerminatesWellFormed ==
    /\ [](gpc = "dfa_loop" => LoopMeasure >= 0)
    /\ [][gpc = "dfa_loop" => LoopMeasure' < LoopMeasure]_vars
    /\ [](gpc \in {"dfa", "walked"} => DFAShape)

\* A finished DFA of four states or more with a transition back to an
\* earlier state.
C36_Witness ==
    /\ gpc = "dfa"
    /\ Cardinality(build.dfa.states) >= 4
    /\ \E k \in DOMAIN build.dfa.transitions : build.dfa.transitions[k] <= k[1]

\* C31: epsilon_closure returns on every NFA, epsilon cycles included, and
\* for all sets S and T of states its result contains S, is its own closure,
\* and the closure of S \cup T is the union of the closures of S and of T
\* (S and T the empty set, the sets of one state, and their unions).
C31_EpsilonClosureIsAClosure ==
    gpc = "nfa" =>
    \E cl \in {[a \in nfa.states |-> epsilon_closure(nfa, {a})]} :
        /\ epsilon_closure(nfa, {}) = {}
        /\ \A a \in nfa.states :
              /\ a \in cl[a]
              /\ cl[a] \subseteq nfa.states
              /\ epsilon_closure(nfa, cl[a]) = cl[a]
        /\ \A a, b \in nfa.states :
              a < b =>
                \E c \in {epsilon_closure(nfa, {a, b})} :
                    /\ c = cl[a] \cup cl[b]
                    /\ epsilon_closure(nfa, c) = c

\* The states of n that lie on an epsilon cycle.
OnEpsilonCycle(n) ==
    {t.from : t \in {x \in n.transitions :
                        x.sym = Epsilon
                          /\ x.from \in epsilon_closure(n, {x.to})}}

\* The NFA of a rule list with (a*)*: epsilon cycles inside epsilon cycles,
\* and a closure of more states than the set closed.
C31_Witness ==
    /\ gpc = "nfa"
    /\ RKleene(RKleene(RChar(A))) \in Range(rules)
    /\ Cardinality(OnEpsilonCycle(nfa)) >= 4
    /\ Cardinality(epsilon_closure(nfa, {nfa.start_state})) >= 4

-----------------------------------------------------------------------------
(* DFA::simulate (dfa.rs 142-195)                                          *)

\* Longest input given to DFA::simulate.
MaxSimInput == 3
\* Most rules in a rule list whose DFA is simulated.
MaxSimRules == 2

\* U+00E9, a char of two bytes in UTF-8.
Eacute == 233

\* char::len_utf8.
len_utf8(c) ==
    IF c < 128 THEN 1 ELSE IF c < 2048 THEN 2 ELSE IF c < 65536 THEN 3 ELSE 4

\* str::len: the length of a string in bytes.
RECURSIVE ByteLen(_)
ByteLen(chars) ==
    IF chars = <<>> THEN 0 ELSE len_utf8(Head(chars)) + ByteLen(Tail(chars))

\* `input[n..]`: the string from byte n on; a panic when n is beyond the end
\* or inside a char.
SliceFrom(chars, n) ==
    IF \E k \in 0 .. Len(chars) : ByteLen(SubSeq(chars, 1, k)) = n
    THEN [ok |-> TRUE,
          rest |-> SubSeq(chars,
                          1 + CHOOSE k \in 0 .. Len(chars) :
                                  ByteLen(SubSeq(chars, 1, k)) = n,
                          Len(chars))]
    ELSE [ok |-> FALSE, rest |-> <<>>]

\* The for loop of scan_next_token from char number k on: the last accepting
\* state seen (None when none) and the number of chars read up to it.
RECURSIVE ScanChars(_, _, _, _, _, _)
ScanChars(d, chars, k, current_state, last_accepting_state, last_accepting_length) ==
    IF k > Len(chars) THEN <<last_accepting_state, last_accepting_length>>
    ELSE IF chars[k] \notin d.alphabet
    THEN <<last_accepting_state, last_accepting_length>>
    ELSE IF <<current_state, Char(chars[k])>> \notin DOMAIN d.transitions
    THEN <<last_accepting_state, last_accepting_length>>
    ELSE Bind(d.transitions[<<current_state, Char(chars[k])>>],
              LAMBDA next_state :
                  IF next_state \in d.final_states
                  THEN ScanChars(d, chars, k + 1, next_state, next_state, k)
                  ELSE ScanChars(d, chars, k + 1, next_state,
                                 last_accepting_state, last_accepting_length))

\* DFA::scan_next_token: token, action and rest.  The token is cut by chars,
\* the rest by bytes.  The action "UNKNOWN" of a state without one is
\* written 0.
scan_next_token(d, text) ==
    Bind(ScanChars(d, text, 1, d.start_state, None, 0),
         LAMBDA accepting :
             IF accepting[1] # None
             THEN Bind(SliceFrom(text, accepting[2]),
                       LAMBDA sl :
                           [panic |-> ~sl.ok,
                            token |-> SubSeq(text, 1, accepting[2]),
                            action |-> IF accepting[1] \in DOMAIN d.actions
                                       THEN d.actions[accepting[1]] ELSE 0,
                            rest |-> sl.rest])
             ELSE [panic |-> FALSE, token |-> <<>>, action |-> 0,
                   rest |-> text])

\* The while loop of DFA::simulate.
RECURSIVE SimulateLoop(_, _, _)
SimulateLoop(d, remaining, tokens) ==
    IF remaining = <<>> THEN [kind |-> "tokens", tokens |-> tokens]
    ELSE Bind(scan_next_token(d, remaining),
              LAMBDA r :
                  IF r.panic THEN [kind |-> "panic", tokens |-> tokens]
                  ELSE IF r.token = <<>>
                  THEN [kind |-> "tokens", tokens |-> tokens]
                  ELSE SimulateLoop(d, r.rest,
                                    Append(tokens, [token |-> r.token,
                                                    action |-> r.action])))

DFA_simulate(d, text) == SimulateLoop(d, text, <<>>)

\* The patterns of the simulated rule lists:
\* a, ab, a|e', a*, [ab]+, e'+, (a*)*b, a{1,2}
SimPatterns ==
    {RChar(A), RConcat(RChar(A), RChar(B)), RUnion(RChar(A), RChar(Eacute)),
     RKleene(RChar(A)), RPlus(RClass({A, B})), RPlus(RChar(Eacute)),
     RConcat(RKleene(RKleene(RChar(A))), RChar(B)),
     RBounded(RChar(A), 1, <<2>>)}

SimRuleLists == UNION {[1 .. k -> SimPatterns] : k \in 1 .. MaxSimRules}

SimInputs == UNION {[1 .. k -> {A, B, Eacute}] : k \in 0 .. MaxSimInput}

SimInit ==
    /\ gpc = "rules"
    /\ rules \in SimRuleLists
    /\ tagged \in BOOLEAN
    /\ nfa = NFA_default
    /\ build = NoBuild
    /\ word = <<>>
    /\ ScannerIdle
    /\ ParserIdle
    /\ FileIdle
    /\ emitted = <<>>
    /\ applied = NoCall
    /\ simulated = NoRun

\* DFA::simulate on the finished DFA.
Simulate ==
    /\ gpc = "dfa"
    /\ \E text \in SimInputs :
          simulated' = [kind |-> DFA_simulate(build.dfa, text).kind,
                        input |-> text,
                        tokens |-> DFA_simulate(build.dfa, text).tokens]
    /\ gpc' = "simulated"
    /\ UNCHANGED <<rules, tagged, nfa, build, word, svars, pvars, fvars,
                   emitted, applied>>

SimNext == Merge \/ ConvertBegin \/ ConvertPop \/ Simulate

SpecSim == SimInit /\ [][SimNext]_vars

\* The chars of the tokens, one token after the other.
RECURSIVE TokenChars(_)
TokenChars(tokens) ==
    IF tokens = <<>> THEN <<>>
    ELSE Head(tokens).token \o TokenChars(Tail(tokens))

\* `text` without its first n chars.
Drop(text, n) == SubSeq(text, n + 1, Len(text))

\* The lengths of the non-empty prefixes of `text` that end in a final
\* state of d.
FinalPrefixes(d, text) ==
    {n \in 1 .. Len(text) :
        DFA_walk(d, d.start_state, SubSeq(text, 1, n)) \in d.final_states}

\* What is left of the input before token number k.
Remaining(run, k) ==
    Drop(run.input, Len(TokenChars(SubSeq(run.tokens, 1, k - 1))))

\* C37: DFA::simulate returns on every input; its tokens are non-empty and
\* one after the other make a prefix of the input; each token is the longest
\* prefix of the remaining input that ends in a final state; after the last
\* token no prefix of the remaining input ends in a final state.
C37_SimulateIsMaximalMunch ==
    simulated.kind # "none" =>
        /\ simulated.kind = "tokens"
        /\ \A k \in DOMAIN simulated.tokens : simulated.tokens[k].token # <<>>
        /\ Len(TokenChars(simulated.tokens)) <= Len(simulated.input)
        /\ TokenChars(simulated.tokens)
             = SubSeq(simulated.input, 1, Len(TokenChars(simulated.tokens)))
        /\ \A k \in DOMAIN simulated.tokens :
              \E lens \in {FinalPrefixes(build.dfa, Remaining(simulated, k))} :
                  /\ lens # {}
                  /\ Len(simulated.tokens[k].token) = Max(lens)
        /\ FinalPrefixes(build.dfa,
                         Remaining(simulated, Len(simulated.tokens) + 1)) = {}

\* No transition of n leads to its start state.
StartHasNoIncoming(n) == \A t \in n.transitions : t.to # n.start_state

\* C34: the start state of an NFA made by the combinators has no incoming
\* transition; no transition of the DFA made from it leads to DFA state 0;
\* every token DFA::simulate returns has one char or more.
C34_StartIsNeverReentered ==
    /\ gpc # "rules" => StartHasNoIncoming(nfa)
    /\ gpc \in {"dfa", "simulated"} =>
          /\ build.dfa.start_state = 0
          /\ \A k \in DOMAIN build.dfa.transitions :
                build.dfa.transitions[k] # 0
    /\ \A k \in DOMAIN simulated.tokens : Len(simulated.tokens[k].token) >= 1

\* Tokens returned from the DFA of a rule list with a pattern that matches
\* the empty word, and whose NFA has an epsilon cycle.
C34_Witness ==
    /\ gpc = "simulated"
    /\ RKleene(RChar(A)) \in Range(rules)
    /\ OnEpsilonCycle(nfa) # {}
    /\ NFA_accepts(nfa, <<>>)
    /\ Len(simulated.tokens) >= 2

\* What yylex has left to do before it returns: the bytes from current_pos
\* to buffer_end, and within one pass from scan_token the matches not yet
\* tried.
ScanVariant ==
    (buffer_end - current_pos) * (MAX_MATCHES + 2)
      + (IF pc = "scan_token" THEN MAX_MATCHES + 1
         ELSE Len(yy_matches) - yy_match_index)

\* C35: a pass of yylex from scan_token that comes back to scan_token has
\* moved current_pos forward by one byte or more (a match has one byte or
\* more); each step of yylex lowers a measure that stays at zero or above,
\* so yylex returns; current_pos never exceeds buffer_end.
C35_EveryPassAdvancesOrReturns ==
    /\ [](current_pos <= buffer_end)
    /\ [](pc # "idle" =>
            /\ ScanVariant >= 0
            /\ \A k \in DOMAIN yy_matches : yy_matches[k].length >= 1)
    /\ [][(pc # "idle" /\ pc' = "scan_token") =>
             current_pos' >= yy_current_token_start' + 1]_vars
    /\ [][(pc # "idle" /\ pc' # "idle") => ScanVariant' < ScanVariant]_vars

\* yylex back at scan_token after the two matches of a pass were REJECTed
\* and one byte was skipped, with input left in the buffer.
C35_Witness ==
    /\ pc = "scan_token"
    /\ last.kind = "all_rejected"
    /\ Cardinality(tried) >= 2
    /\ current_pos = yy_current_token_start + 1
    /\ current_pos < buffer_end

====
